---- MODULE Spec2Model ----
(***************************************************************************)
(* TaskFlow front end: the session store (AuthContext.tsx), the role and   *)
(* route tables, the login form's two-path authentication flow             *)
(* (LoginForm.tsx), the axios client with its 401 interceptor (api.ts) and *)
(* one fetch-based component (Notifications.tsx), and the dashboard        *)
(* (Dashboard.tsx, both revisions kept in types/index.ts).                 *)
(*                                                                         *)
(* JavaScript null / undefined are written Null (for object values),       *)
(* NoToken / NoError (for string values), 0 (for a missing number) and ""  *)
(* (for a missing or empty string: both are falsy in the code's tests).    *)
(* The presentation-only fields avatar and lastLogin of User are left out. *)
(***************************************************************************)
EXTENDS Integers, Sequences, FiniteSets, TLC

VARIABLES
    authState,      \* AuthProvider state {user, isAuthenticated, isLoading}
    storage,        \* localStorage: 'access_token' and 'auth'
    location,       \* window.location.pathname
    navigating,     \* a full navigation to '/login' has been requested
    initPc,         \* position of the initializeAuth effect
    refreshPc,      \* position of refreshUser
    formPc,         \* position of LoginForm.handleSubmit
    formLoading,    \* LoginForm state `loading`
    formError,      \* LoginForm state `error`
    regularResult,  \* handleSubmit local: result of login(), while it runs
    calls,          \* requests issued by the current submission, in order
    notifPc,        \* position of Notifications.fetchNotifications
    notifications,  \* Notifications state `notifications`
    notifLoading,   \* Notifications state `loading`
    notifError,     \* Notifications state `error`
    lastOp,         \* the handler that ran last, how it ended, what it started from
    revision,       \* which of the two revisions kept of the mounted component (1 or 2)
    backend,        \* the collections the backend holds
    app,            \* AppContext state: tasks and notifications
    dashPc,         \* position of Dashboard.loadDashboardData
    companiesPc,    \* position of Dashboard.loadCompanies when it runs on its own
    stats,          \* Dashboard state `stats`
    recentActivities, \* Dashboard state `recentActivities`
    dashLoading,    \* Dashboard state `loading`
    dashError,      \* Dashboard state `error`
    locals,         \* loadDashboardData locals that live across its awaits
    requests,       \* requests the dashboard has issued, in order
    clock,          \* Date.now()
    statusRequests, \* status requests of task cards that await their answer
    taskList,       \* TaskList state: the filters, and what it renders
    openForm,       \* which form component is mounted, "none" when none is
    userForm,       \* UserForm props and state
    companyForm,    \* CompanyCreationForm state
    taskForm,       \* TaskForm state
    sent            \* requests the mounted form has issued, in order

authVars == <<authState, storage, location, navigating, initPc, refreshPc>>
formVars == <<formPc, formLoading, formError, regularResult, calls>>
notifVars == <<notifPc, notifications, notifLoading, notifError>>
dashVars == <<revision, backend, app, dashPc, companiesPc, stats, recentActivities,
              dashLoading, dashError, locals, requests>>
uiVars == <<clock, statusRequests, taskList, openForm, userForm, companyForm, taskForm, sent>>
vars == <<authVars, formVars, notifVars, lastOp, dashVars, uiVars>>

-----------------------------------------------------------------------------
(* Values *)

Null == [null |-> TRUE]
NoToken == "<null>"
NoError == "<null>"

Roles == {"super_admin", "admin", "user"}

ROLE_PERMISSIONS ==
    [super_admin |-> {"manage_companies", "manage_all_users", "view_dashboard"},
     admin       |-> {"manage_company_users", "manage_company_tasks", "view_dashboard"},
     user        |-> {"view_own_tasks", "update_own_tasks", "view_dashboard"}]

ROUTE_ACCESS ==
    ("/dashboard" :> {"super_admin", "admin", "user"}) @@
    ("/users"     :> {"super_admin", "admin"}) @@
    ("/companies" :> {"super_admin"})

\* permission names asked for: every name of the table and one that is in no set
PermissionNames == UNION {ROLE_PERMISSIONS[r] : r \in Roles} \cup {"assign_tasks"}

\* route identifiers asked for: the configured ones and three that are not
RouteNames == DOMAIN ROUTE_ACCESS \cup {"/some/unmapped/route", "/tasks", "/login"}

\* where the browser can be
Paths == {"/login", "/dashboard"}

-----------------------------------------------------------------------------
(* The backend's user objects (UserResponse) and their transformation *)

Email(local, domain) == [local |-> local, domain |-> domain]

BackendRoot  == [id |-> 1, email |-> Email("root", "taskflow.io"), username |-> "root",
                 role |-> "super_admin", is_active |-> TRUE, company_id |-> 0,
                 can_assign_tasks |-> FALSE, created_at |-> "2024-01-01"]
BackendAcme  == [id |-> 2, email |-> Email("boss", "acme.com"), username |-> "acme",
                 role |-> "admin", is_active |-> TRUE, company_id |-> 1,
                 can_assign_tasks |-> FALSE, created_at |-> "2024-02-01"]
BackendStaff == [id |-> 3, email |-> Email("ann", "acme.com"), username |-> "",
                 role |-> "user", is_active |-> TRUE, company_id |-> 1,
                 can_assign_tasks |-> FALSE, created_at |-> "2024-03-01"]
\* a user object without an id: backendUser.id.toString() throws a TypeError
BackendNoId  == [id |-> 0, email |-> Email("bob", "acme.com"), username |-> "bob",
                 role |-> "user", is_active |-> TRUE, company_id |-> 1,
                 can_assign_tasks |-> TRUE, created_at |-> "2024-04-01"]

BackendUsers == {BackendRoot, BackendAcme, BackendStaff, BackendNoId}

transformThrows(backendUser) == backendUser.id = 0

transformBackendUserDropsRole(backendUser) ==
    [id             |-> ToString(backendUser.id),
     name           |-> backendUser.username,
     email          |-> backendUser.email,
     role           |-> "",
     canAssignTasks |-> backendUser.can_assign_tasks,
     isActive       |-> backendUser.is_active,
     createdAt      |-> [date |-> backendUser.created_at],
     company_id     |-> backendUser.company_id,
     username       |-> backendUser.username]

transformBackendUser(backendUser) ==
    [id             |-> ToString(backendUser.id),
     name           |-> IF backendUser.username # "" THEN backendUser.username
                        ELSE backendUser.email.local,
     email          |-> backendUser.email,
     role           |-> backendUser.role,
     canAssignTasks |-> \/ backendUser.can_assign_tasks
                        \/ backendUser.role = "super_admin"
                        \/ backendUser.role = "admin",
     isActive       |-> backendUser.is_active,
     createdAt      |-> [date |-> backendUser.created_at],
     company_id     |-> backendUser.company_id,
     username       |-> backendUser.username]

\* JSON.stringify(user): an undefined company_id is dropped, the Date becomes
\* its ISO string
JSONstringify(user) ==
    LET keys == DOMAIN user \ (IF user.company_id = 0 THEN {"company_id"} ELSE {})
    IN  [k \in keys |-> IF k = "createdAt" THEN user[k].date \o "T00:00:00.000Z"
                        ELSE user[k]]

Users == {transformBackendUser(b) : b \in {b \in BackendUsers : ~transformThrows(b)}}

-----------------------------------------------------------------------------
(* Role / permission table lookups (AuthContext.tsx) *)

hasPermissionAnyRole(st, permission) ==
    st.user # Null /\ permission \in UNION {ROLE_PERMISSIONS[r] : r \in Roles}

hasPermission(st, permission) ==
    IF st.user = Null THEN FALSE
    ELSE LET userPermissions ==
                 IF st.user.role \in DOMAIN ROLE_PERMISSIONS
                 THEN ROLE_PERMISSIONS[st.user.role] ELSE {}
         IN  permission \in userPermissions

canAccessRouteAnyRole(st, route) == st.user # Null

canAccessRouteFailClosed(st, route) ==
    IF st.user = Null THEN FALSE
    ELSE IF route \notin DOMAIN ROUTE_ACCESS THEN FALSE
    ELSE st.user.role \in ROUTE_ACCESS[route]

canAccessRoute(st, route) ==
    IF st.user = Null THEN FALSE
    ELSE IF route \notin DOMAIN ROUTE_ACCESS THEN TRUE
    ELSE st.user.role \in ROUTE_ACCESS[route]

-----------------------------------------------------------------------------
(* Errors thrown by the axios client and the messages made of them (api.ts) *)

NoDetail == [kind |-> "none", str |-> "", items |-> <<>>]
DetailString(s) == [kind |-> "string", str |-> s, items |-> <<>>]
DetailArray(items) == [kind |-> "array", str |-> "", items |-> items]

\* an AxiosError: status = 0 when there is no response
AxiosError(code, status, detail, dataMessage, message) ==
    [code |-> code, status |-> status, detail |-> detail,
     dataMessage |-> dataMessage, message |-> message]

\* new Error(message), and the TypeError of a property read on undefined
PlainError(message) == AxiosError("", 0, NoDetail, "", message)

ErrTimeout     == AxiosError("ECONNABORTED", 0, NoDetail, "", "timeout of 10000ms exceeded")
Err401Detail   == AxiosError("ERR_BAD_REQUEST", 401, DetailString("Incorrect username or password"),
                             "", "Request failed with status code 401")
Err401Bare     == AxiosError("ERR_BAD_REQUEST", 401, NoDetail, "",
                             "Request failed with status code 401")
Err422         == AxiosError("ERR_BAD_REQUEST", 422,
                             DetailArray(<<[msg |-> "field required"], [msg |-> "value too short"]>>),
                             "", "Request failed with status code 422")
Err422Empty    == AxiosError("ERR_BAD_REQUEST", 422, DetailArray(<<>>), "",
                             "Request failed with status code 422")

HttpErrors == {ErrTimeout, Err401Detail, Err401Bare, Err422, Err422Empty}

MsgNetwork      == "Network error. Please check your connection and try again."
MsgTimeout      == "Request timed out. Please try again."
Msg500          == "Server error. Please try again later."
Msg404          == "The requested resource was not found."
Msg403          == "You do not have permission to access this resource."
Msg401          == "Authentication failed. Please check your credentials."
MsgUnexpected   == "An unexpected error occurred. Please try again."
MsgLoginFailed  == "Login failed. Please check your credentials."
MsgInvalidStructure == "Invalid response structure: missing access_token or user"
MsgEmptyResponse == "Empty response from server"
MsgMissingToken == "Invalid response: missing access_token"
MsgMissingUser  == "Invalid response: missing user data"
MsgTypeError    == "Cannot read properties of undefined (reading 'toString')"
MsgTypeErrorData == "Cannot read properties of undefined (reading 'access_token')"

\* error.message.includes('timeout')
includesTimeout(message) == message \in {"timeout of 10000ms exceeded"}

RECURSIVE join(_)
\* detail.map(err => err.msg || err.message || String(err)).join(', ')
join(items) ==
    IF Len(items) = 0 THEN ""
    ELSE IF Len(items) = 1 THEN items[1].msg
    ELSE items[1].msg \o ", " \o join(Tail(items))

handleApiErrorMessageFirst(error) ==
    IF error.code = "NETWORK_ERROR" \/ error.code = "ECONNABORTED" THEN MsgNetwork
    ELSE IF error.detail.kind = "string" /\ error.detail.str # "" THEN error.detail.str
    ELSE IF error.detail.kind = "array" THEN join(error.detail.items)
    ELSE IF error.dataMessage # "" THEN error.dataMessage
    ELSE IF error.message # "" THEN error.message
    ELSE IF error.status = 500 THEN Msg500
    ELSE IF error.status = 404 THEN Msg404
    ELSE IF error.status = 403 THEN Msg403
    ELSE IF error.status = 401 THEN Msg401
    ELSE MsgUnexpected

handleApiError(error) ==
    IF error.code = "NETWORK_ERROR" \/ error.code = "ECONNABORTED" THEN MsgNetwork
    ELSE IF error.code = "ECONNABORTED" /\ includesTimeout(error.message) THEN MsgTimeout
    ELSE IF error.detail.kind = "string" /\ error.detail.str # "" THEN error.detail.str
    ELSE IF error.detail.kind = "array" THEN join(error.detail.items)
    ELSE IF error.dataMessage # "" THEN error.dataMessage
    ELSE IF error.status = 500 THEN Msg500
    ELSE IF error.status = 404 THEN Msg404
    ELSE IF error.status = 403 THEN Msg403
    ELSE IF error.status = 401 THEN Msg401
    ELSE IF error.message # "" THEN error.message
    ELSE MsgUnexpected

-----------------------------------------------------------------------------
(* What the backend can answer *)

HttpOk(data) == [ok |-> TRUE, data |-> data, error |-> Null]
HttpFail(error) == [ok |-> FALSE, data |-> Null, error |-> error]

LoginBody(token, user) == [access_token |-> token, user |-> user]

\* bodies of a 200 answer to POST /login or /company-login: a token and any of
\* the user objects, or a body that lacks the token, the user, or everything
LoginBodies(token) ==
    {LoginBody(token, u) : u \in BackendUsers}
        \cup {LoginBody("", BackendAcme), LoginBody(token, Null), Null}

LoginResponses(token) ==
    {HttpOk(b) : b \in LoginBodies(token)} \cup {HttpFail(e) : e \in HttpErrors}

\* GET /users/me answers 200 only to a request that carried a bearer token
CurrentUserResponses(sentToken) ==
    (IF sentToken = NoToken THEN {} ELSE {HttpOk(u) : u \in BackendUsers})
        \cup {HttpFail(e) : e \in HttpErrors}

-----------------------------------------------------------------------------
(* The axios client (api.ts, first revision: the one that has companyLogin) *)

cleared == [access_token |-> NoToken, auth |-> Null]

\* window.location.pathname.includes('/login')
pathIncludesLogin(path) == path \in {"/login"}

responseInterceptorNoClear(error, sto, nav, path) ==
    IF error.status = 401
    THEN [storage |-> [sto EXCEPT !.access_token = NoToken],
          navigating |-> nav \/ ~pathIncludesLogin(path)]
    ELSE [storage |-> sto, navigating |-> nav]

\* api.interceptors.response, error branch: what it leaves of localStorage and
\* of the pending navigation before it rejects with the same error
responseInterceptor(error, sto, nav, path) ==
    IF error.status = 401
    THEN [storage |-> cleared, navigating |-> nav \/ ~pathIncludesLogin(path)]
    ELSE [storage |-> sto, navigating |-> nav]

Returned(data) == [ok |-> TRUE, data |-> data, error |-> Null]
Thrown(error) == [ok |-> FALSE, data |-> Null, error |-> error]

\* authAPI.login, after the answer: the returned body or the thrown error
authAPIlogin(resp) ==
    IF ~resp.ok THEN Thrown(resp.error)
    ELSE IF resp.data = Null THEN Thrown(PlainError(MsgTypeErrorData))
    ELSE IF resp.data.access_token = "" \/ resp.data.user = Null
         THEN Thrown(PlainError(MsgInvalidStructure))
    ELSE Returned(resp.data)

\* authAPI.companyLogin, after the answer
authAPIcompanyLogin(resp) ==
    IF ~resp.ok THEN Thrown(resp.error)
    ELSE IF resp.data = Null THEN Thrown(PlainError(MsgEmptyResponse))
    ELSE IF resp.data.access_token = "" THEN Thrown(PlainError(MsgMissingToken))
    ELSE IF resp.data.user = Null THEN Thrown(PlainError(MsgMissingUser))
    ELSE Returned(resp.data)

\* authAPI.getCurrentUser, after the answer
authAPIgetCurrentUser(resp) ==
    IF ~resp.ok THEN Thrown(resp.error) ELSE Returned(resp.data)

-----------------------------------------------------------------------------
(* The session store (AuthContext.tsx) *)

Unauthenticated == [user |-> Null, isAuthenticated |-> FALSE, isLoading |-> FALSE]
Mounting == [user |-> Null, isAuthenticated |-> FALSE, isLoading |-> TRUE]
Authenticated(user) == [user |-> user, isAuthenticated |-> TRUE, isLoading |-> FALSE]

\* outcome: "ok" or "failed" for the steps that handle an answer, "" otherwise;
\* status: the HTTP status of that answer, 0 when there is none
Op(name, outcome, status) ==
    [name |-> name, outcome |-> outcome, status |-> status,
     wasAuthenticated |-> authState.isAuthenticated]

\* the HTTP status of an answer of the axios client
statusOf(resp) == IF resp.ok THEN 200 ELSE resp.error.status

commonLoginLogicTokenOnly(accessToken, userData) ==
    LET user == transformBackendUser(userData)
    IN  [storage |-> [access_token |-> accessToken, auth |-> Null],
         authState |-> Authenticated(user)]

\* commonLoginLogic past the transformation, which the caller has checked
\* not to throw
commonLoginLogic(accessToken, userData) ==
    LET user == transformBackendUser(userData)
    IN  [storage |-> [access_token |-> accessToken, auth |-> JSONstringify(user)],
         authState |-> Authenticated(user)]

\* the company login's override of the role
forcedUserAsReturned(user) == user

forcedUser(user) == [user EXCEPT !.role = "admin"]

\* the mount effect has run: React runs it before it handles any event
mounted == initPc # "start"

\* the try block of initializeAuth / refreshUser runs to its end: the request
\* succeeded and transformBackendUser did not throw
currentUserAccepted(resp) ==
    LET r == authAPIgetCurrentUser(resp) IN r.ok /\ ~transformThrows(r.data)

\* the try block of login() runs to its end
loginAccepted(resp) ==
    LET r == authAPIlogin(resp) IN r.ok /\ ~transformThrows(r.data.user)

\* the try block of companyLogin() runs to its end
companyLoginAccepted(resp) ==
    LET r == authAPIcompanyLogin(resp) IN r.ok /\ ~transformThrows(forcedUser(r.data.user))

initializeAuthTrustsProfile ==
    /\ initPc = "start"
    /\ IF storage.access_token # NoToken
       THEN /\ initPc' = "awaiting"
            /\ UNCHANGED authState
       ELSE /\ initPc' = "done"
            /\ authState' = IF storage.auth # Null
                            THEN [user |-> storage.auth, isAuthenticated |-> TRUE,
                                  isLoading |-> FALSE]
                            ELSE Unauthenticated
    /\ lastOp' = Op("initializeAuth", "", 0)
    /\ UNCHANGED <<storage, location, navigating, refreshPc, formVars, notifVars, dashVars, uiVars>>

\* useEffect: initializeAuth up to its await
initializeAuth ==
    /\ initPc = "start"
    /\ IF storage.access_token # NoToken
       THEN /\ initPc' = "awaiting"
            /\ UNCHANGED authState
       ELSE /\ initPc' = "done"
            /\ authState' = Unauthenticated
    /\ lastOp' = Op("initializeAuth", "", 0)
    /\ UNCHANGED <<storage, location, navigating, refreshPc, formVars, notifVars, dashVars, uiVars>>

initializeAuthResolveKeepsToken(resp) ==
    /\ initPc = "awaiting"
    /\ LET r == authAPIgetCurrentUser(resp)
       IN  IF currentUserAccepted(resp)
           THEN LET user == transformBackendUser(r.data)
                IN  /\ storage' = [storage EXCEPT !.auth = JSONstringify(user)]
                    /\ authState' = Authenticated(user)
           ELSE /\ storage' = [storage EXCEPT !.auth = Null]
                /\ authState' = Unauthenticated
    /\ initPc' = "done"
    /\ lastOp' = Op("initializeAuthResolve",
                     IF currentUserAccepted(resp) THEN "ok" ELSE "failed",
                     statusOf(resp))
    /\ UNCHANGED <<location, navigating, refreshPc, formVars, notifVars, dashVars, uiVars>>

\* initializeAuth from the answer of authAPI.getCurrentUser on
initializeAuthResolve(resp) ==
    /\ initPc = "awaiting"
    /\ LET r == authAPIgetCurrentUser(resp)
           after == IF r.ok THEN [storage |-> storage, navigating |-> navigating]
                    ELSE responseInterceptor(r.error, storage, navigating, location)
       IN  IF currentUserAccepted(resp)
           THEN LET user == transformBackendUser(r.data)
                IN  /\ storage' = [storage EXCEPT !.auth = JSONstringify(user)]
                    /\ authState' = Authenticated(user)
                    /\ UNCHANGED navigating
           ELSE /\ storage' = cleared
                /\ authState' = Unauthenticated
                /\ navigating' = after.navigating
    /\ initPc' = "done"
    /\ lastOp' = Op("initializeAuthResolve",
                     IF currentUserAccepted(resp) THEN "ok" ELSE "failed",
                     statusOf(resp))
    /\ UNCHANGED <<location, refreshPc, formVars, notifVars, dashVars, uiVars>>

logoutKeepsProfile ==
    /\ mounted
    /\ storage' = [storage EXCEPT !.access_token = NoToken]
    /\ authState' = Unauthenticated
    /\ navigating' = TRUE
    /\ lastOp' = Op("logout", "", 0)
    /\ UNCHANGED <<location, initPc, refreshPc, formVars, notifVars, dashVars, uiVars>>

logout ==
    /\ mounted
    /\ storage' = cleared
    /\ authState' = Unauthenticated
    /\ navigating' = TRUE
    /\ lastOp' = Op("logout", "", 0)
    /\ UNCHANGED <<location, initPc, refreshPc, formVars, notifVars, dashVars, uiVars>>

\* { ...prev.user, ...patch } where the patch names the fields it has a value for
mergeProfile(prev, patch) ==
    IF prev = Null THEN patch
    ELSE [k \in DOMAIN prev |->
             IF (k = "company_id" /\ patch[k] = 0) \/ (k = "username" /\ patch[k] = "")
             THEN prev[k] ELSE patch[k]]

updateUserMerges(user) ==
    /\ mounted
    /\ LET merged == mergeProfile(authState.user, user)
       IN  /\ storage' = [storage EXCEPT !.auth = JSONstringify(merged)]
           /\ authState' = [authState EXCEPT !.user = merged]
    /\ lastOp' = Op("updateUser", "", 0)
    /\ UNCHANGED <<location, navigating, initPc, refreshPc, formVars, notifVars, dashVars, uiVars>>

updateUser(user) ==
    /\ mounted
    /\ storage' = [storage EXCEPT !.auth = JSONstringify(user)]
    /\ authState' = [authState EXCEPT !.user = user]
    /\ lastOp' = Op("updateUser", "", 0)
    /\ UNCHANGED <<location, navigating, initPc, refreshPc, formVars, notifVars, dashVars, uiVars>>

\* refreshUser up to its await; the request interceptor attaches the token
\* that is in localStorage now
refreshUser ==
    /\ mounted
    /\ refreshPc = "idle"
    /\ refreshPc' = IF storage.access_token # NoToken THEN "awaiting" ELSE "awaitingAnonymous"
    /\ lastOp' = Op("refreshUser", "", 0)
    /\ UNCHANGED <<authState, storage, location, navigating, initPc, formVars, notifVars, dashVars, uiVars>>

\* refreshUser from the answer on: updateUser(updatedUser) or logout()
refreshUserResolve(resp) ==
    /\ refreshPc # "idle"
    /\ LET r == authAPIgetCurrentUser(resp)
       IN  IF currentUserAccepted(resp)
           THEN LET user == transformBackendUser(r.data)
                IN  /\ storage' = [storage EXCEPT !.auth = JSONstringify(user)]
                    /\ authState' = [authState EXCEPT !.user = user]
                    /\ UNCHANGED navigating
           ELSE /\ storage' = cleared
                /\ authState' = Unauthenticated
                /\ navigating' = TRUE
    /\ refreshPc' = "idle"
    /\ lastOp' = Op("refreshUserResolve",
                     IF currentUserAccepted(resp) THEN "ok" ELSE "failed",
                     statusOf(resp))
    /\ UNCHANGED <<location, initPc, formVars, notifVars, dashVars, uiVars>>

-----------------------------------------------------------------------------
(* The login form (LoginForm.tsx) with login / companyLogin of the store *)

\* what is typed into the form: an e-mail address and a company user name
DemoAdmin == "demoadmin@company.com"
Identities == {DemoAdmin, "acme"}
Secrets == {"pw"}

Call(endpoint, username, password) ==
    [endpoint |-> endpoint, username |-> username, password |-> password]

\* what login() / companyLogin() return; `caught` is the error their catch
\* block received, which the returned object does not carry
Success == [success |-> TRUE, error |-> "", caught |-> Null]
Failure(error) == [success |-> FALSE, error |-> handleApiError(error), caught |-> error]

\* the error login() catches: the one authAPI.login threw, or the TypeError
\* of transformBackendUser
loginCaught(resp) ==
    LET r == authAPIlogin(resp) IN IF r.ok THEN PlainError(MsgTypeError) ELSE r.error

\* the error companyLogin() catches
companyLoginCaught(resp) ==
    LET r == authAPIcompanyLogin(resp) IN IF r.ok THEN PlainError(MsgTypeError) ELSE r.error

\* companyResult.error || regularResult.error || 'Login failed. ...'
errorMsgRegularFirst(company, regular) ==
    IF regular.error # "" THEN regular.error
    ELSE IF company.error # "" THEN company.error
    ELSE MsgLoginFailed

errorMsg(company, regular) ==
    IF company.error # "" THEN company.error
    ELSE IF regular.error # "" THEN regular.error
    ELSE MsgLoginFailed

\* the request companyLogin(email, password) sends: the closure's own
\* email and password, those of the primary request
companyCallRetriesPrimary(first) == Call("/login", first.username, first.password)

companyCall(first) == Call("/company-login", first.username, first.password)

\* handleSubmit up to the await in login(): the button is disabled while
\* `loading`, and the form is the page shown at the login entry point
handleSubmit(email, password) ==
    /\ mounted
    /\ formPc = "idle"
    /\ ~formLoading
    /\ pathIncludesLogin(location)
    /\ formLoading' = TRUE
    /\ formError' = NoError
    /\ authState' = [authState EXCEPT !.isLoading = TRUE]
    /\ calls' = <<Call("/login", email, password)>>
    /\ regularResult' = Null
    /\ formPc' = "primary"
    /\ lastOp' = Op("handleSubmit", "", 0)
    /\ UNCHANGED <<storage, location, navigating, initPc, refreshPc, notifVars, dashVars, uiVars>>

\* from the answer to POST /login on: login() returns, and handleSubmit
\* either navigates or goes on into companyLogin() up to its await
primaryLoginResolve(resp) ==
    /\ formPc = "primary"
    /\ LET r == authAPIlogin(resp)
       IN  IF loginAccepted(resp)
           THEN LET done == commonLoginLogic(r.data.access_token, r.data.user)
                IN  /\ storage' = done.storage
                    /\ authState' = done.authState
                    /\ regularResult' = Null
                    /\ location' = "/dashboard"
                    /\ formLoading' = FALSE
                    /\ formPc' = "idle"
                    /\ UNCHANGED <<navigating, calls>>
           ELSE LET error == loginCaught(resp)
                    after == IF resp.ok THEN [storage |-> storage, navigating |-> navigating]
                             ELSE responseInterceptor(error, storage, navigating, location)
                IN  /\ storage' = after.storage
                    /\ navigating' = after.navigating
                    /\ regularResult' = Failure(error)
                    /\ authState' = [authState EXCEPT !.isLoading = TRUE]
                    /\ calls' = Append(calls, companyCall(calls[1]))
                    /\ formPc' = "company"
                    /\ UNCHANGED <<location, formLoading>>
    /\ lastOp' = Op("primaryLoginResolve",
                     IF loginAccepted(resp) THEN "ok" ELSE "failed",
                     statusOf(resp))
    /\ UNCHANGED <<initPc, refreshPc, formError, notifVars, dashVars, uiVars>>

companyLoginResolveStaysLoading(resp) ==
    /\ formPc = "company"
    /\ LET r == authAPIcompanyLogin(resp)
       IN  IF companyLoginAccepted(resp)
           THEN LET done == commonLoginLogic(r.data.access_token, forcedUser(r.data.user))
                IN  /\ storage' = done.storage
                    /\ authState' = done.authState
                    /\ location' = "/dashboard"
                    /\ UNCHANGED <<navigating, formError>>
           ELSE LET error == companyLoginCaught(resp)
                    after == IF resp.ok THEN [storage |-> storage, navigating |-> navigating]
                             ELSE responseInterceptor(error, storage, navigating, location)
                    result == Failure(error)
                IN  /\ storage' = after.storage
                    /\ navigating' = after.navigating
                    /\ formError' = errorMsg(result, regularResult)
                    /\ UNCHANGED <<location, authState>>
    /\ formLoading' = FALSE
    /\ formPc' = "idle"
    /\ lastOp' = Op("companyLoginResolve",
                     IF companyLoginAccepted(resp) THEN "ok" ELSE "failed",
                     statusOf(resp))
    /\ regularResult' = Null
    /\ UNCHANGED <<initPc, refreshPc, calls, notifVars, dashVars, uiVars>>

\* from the answer to POST /company-login on, to the end of handleSubmit
companyLoginResolve(resp) ==
    /\ formPc = "company"
    /\ LET r == authAPIcompanyLogin(resp)
       IN  IF companyLoginAccepted(resp)
           THEN LET done == commonLoginLogic(r.data.access_token, forcedUser(r.data.user))
                IN  /\ storage' = done.storage
                    /\ authState' = done.authState
                    /\ location' = "/dashboard"
                    /\ UNCHANGED <<navigating, formError>>
           ELSE LET error == companyLoginCaught(resp)
                    after == IF resp.ok THEN [storage |-> storage, navigating |-> navigating]
                             ELSE responseInterceptor(error, storage, navigating, location)
                    result == Failure(error)
                IN  /\ storage' = after.storage
                    /\ navigating' = after.navigating
                    /\ authState' = [authState EXCEPT !.isLoading = FALSE]
                    /\ formError' = errorMsg(result, regularResult)
                    /\ UNCHANGED location
    /\ formLoading' = FALSE
    /\ formPc' = "idle"
    /\ lastOp' = Op("companyLoginResolve",
                     IF companyLoginAccepted(resp) THEN "ok" ELSE "failed",
                     statusOf(resp))
    /\ regularResult' = Null
    /\ UNCHANGED <<initPc, refreshPc, calls, notifVars, dashVars, uiVars>>

-----------------------------------------------------------------------------
(* The dashboard (Dashboard.tsx): the collections it reads *)

\* new Date(): the time of the load
Now == 10

\* a task; the first revision reads assignedTo / dueDate / createdAt, the
\* second assigned_to_id / due_date / created_at.  due = 0: no due date
Task(id, status, assignee, company_id, due, created) ==
    [id |-> id, status |-> status, assignee |-> assignee, company_id |-> company_id,
     due |-> due, created |-> created]

TaskPendingOverdue   == Task(1, "pending", 3, 1, 5, 1)
TaskCompletedOverdue == Task(2, "completed", 3, 1, 5, 3)
TaskNoDueDate        == Task(3, "in_progress", 2, 1, 0, 5)
TaskFuture           == Task(4, "pending", 5, 2, 15, 7)
TaskDueNow           == Task(5, "pending", 5, 2, Now, 9)

TaskPool == {TaskPendingOverdue, TaskCompletedOverdue, TaskNoDueDate, TaskFuture, TaskDueNow}

MaxTasks == 4

Distinct(seq) == \A i, j \in 1..Len(seq) : i # j => seq[i] # seq[j]

\* the task collections: every list of at most MaxTasks different tasks
TaskLists == UNION {{q \in [1..n -> TaskPool] : Distinct(q)} : n \in 0..MaxTasks}

DashNotification(id, created) == [id |-> id, created |-> created]

NotificationLists ==
    {<<>>,
     <<DashNotification(1, 1), DashNotification(2, 4)>>,
     <<DashNotification(2, 4), DashNotification(4, 8), DashNotification(1, 1),
       DashNotification(3, 6)>>}

\* a user of another company, and the account of a company
BackendGlobex == [id |-> 5, email |-> Email("eve", "globex.com"), username |-> "eve",
                  role |-> "user", is_active |-> FALSE, company_id |-> 2,
                  can_assign_tasks |-> FALSE, created_at |-> "2024-05-01"]
BackendTenant == [id |-> 6, email |-> Email("office", "acme.com"), username |-> "acme-co",
                  role |-> "company", is_active |-> TRUE, company_id |-> 1,
                  can_assign_tasks |-> FALSE, created_at |-> "2024-06-01"]

\* the users and the companies the backend holds
AllUsers == <<BackendRoot, BackendAcme, BackendStaff, BackendGlobex>>
AllCompanies == <<[id |-> 1, name |-> "Acme"], [id |-> 2, name |-> "Globex"]>>

Backend(tasks, notifs) ==
    [tasks |-> tasks, notifications |-> notifs, users |-> AllUsers, companies |-> AllCompanies]

AppState(tasks, notifs) == [tasks |-> tasks, notifications |-> notifs, users |-> <<>>]

\* the sessions the dashboard is shown to
DashboardSessions ==
    {Authenticated(transformBackendUser(b)) :
        b \in {BackendRoot, BackendAcme, BackendStaff, BackendTenant}}

-----------------------------------------------------------------------------
(* The dashboard: what it computes *)

DashboardStats(totalUsers, totalCompanies, totalTasks, pendingTasks, completedTasks, overdueTasks, activeUsers, inactiveUsers) ==
    [totalUsers |-> totalUsers, totalCompanies |-> totalCompanies,
     totalTasks |-> totalTasks, pendingTasks |-> pendingTasks,
     completedTasks |-> completedTasks, overdueTasks |-> overdueTasks,
     activeUsers |-> activeUsers, inactiveUsers |-> inactiveUsers]

\* useState<DashboardStats>({...})
initialStats == DashboardStats(0, 0, 0, 0, 0, 0, 0, 0)

isPending(t) == t.status = "pending" \/ t.status = "in_progress"
isCompleted(t) == t.status = "completed"

isOverdueCountsCompleted(t) ==
    IF t.due = 0 THEN FALSE ELSE t.due < Now

\* the filter of overdueTasks
isOverdue(t) ==
    IF t.due = 0 THEN FALSE
    ELSE t.due < Now /\ t.status # "completed"

isActive(u) == u.is_active
isInactive(u) == ~u.is_active

\* array.slice(0, n)
slice(seq, n) == SubSeq(seq, 1, IF Len(seq) < n THEN Len(seq) ELSE n)

remove(seq, i) == SubSeq(seq, 1, i - 1) \o SubSeq(seq, i + 1, Len(seq))

RECURSIVE sortDesc(_, _)
\* array.sort((a, b) => b[key] - a[key]): descending, and stable
sortDesc(seq, key) ==
    IF seq = <<>> THEN <<>>
    ELSE LET i == CHOOSE i \in 1..Len(seq) :
                      \A j \in 1..Len(seq) :
                          \/ seq[j][key] < seq[i][key]
                          \/ seq[j][key] = seq[i][key] /\ j >= i
         IN  <<seq[i]>> \o sortDesc(remove(seq, i), key)

hasCreated(x) == x.created # 0

taskActivity(task) == [id |-> <<"task", task.id>>, timestamp |-> task.created]
notifActivity(notif) == [id |-> <<"notif", notif.id>>, timestamp |-> notif.created]

\* recentTasks.forEach(task => activities.push({...}))
taskActivities(tasks) == [i \in 1..Len(tasks) |-> taskActivity(tasks[i])]

\* recentNotifications.forEach(notif => activities.push({...}))
notifActivities(notifs) == [i \in 1..Len(notifs) |-> notifActivity(notifs[i])]

\* first revision: newStats of loadDashboardData
newStatsV1(user, tasks) ==
    DashboardStats(0,
                   IF user # Null /\ user.role = "admin" THEN 1 ELSE 0,
                   Len(tasks),
                   Len(SelectSeq(tasks, isPending)),
                   Len(SelectSeq(tasks, isCompleted)),
                   Len(SelectSeq(tasks, isOverdue)),
                   0, 0)

\* first revision: the recent activities
activitiesV1(tasks, notifs) ==
    LET recentTasks == slice(sortDesc(SelectSeq(tasks, hasCreated), "created"), 3)
        recentNotifications == slice(sortDesc(SelectSeq(notifs, hasCreated), "created"), 2)
        activities == taskActivities(recentTasks) \o notifActivities(recentNotifications)
    IN  slice(sortDesc(activities, "timestamp"), 5)

\* second revision: newStats of loadDashboardData
newStatsV2(user, companyList, companyUsers, freshTasks) ==
    DashboardStats(IF user.role = "super_admin" THEN Len(companyUsers)
                   ELSE IF user.role = "admin" THEN Len(companyUsers) ELSE 0,
                   IF user.role = "super_admin" THEN Len(companyList) ELSE 0,
                   Len(freshTasks),
                   Len(SelectSeq(freshTasks, isPending)),
                   Len(SelectSeq(freshTasks, isCompleted)),
                   Len(SelectSeq(freshTasks, isOverdue)),
                   IF user.role = "super_admin" \/ user.role = "admin"
                   THEN Len(SelectSeq(companyUsers, isActive)) ELSE 0,
                   IF user.role = "super_admin" \/ user.role = "admin"
                   THEN Len(SelectSeq(companyUsers, isInactive)) ELSE 0)

\* second revision: the stats of the company branch
companyStats(companyUsers, companyTasks) ==
    DashboardStats(Len(companyUsers), 1, Len(companyTasks),
                   Len(SelectSeq(companyTasks, isPending)),
                   Len(SelectSeq(companyTasks, isCompleted)),
                   Len(SelectSeq(companyTasks, isOverdue)),
                   Len(SelectSeq(companyUsers, isActive)),
                   Len(SelectSeq(companyUsers, isInactive)))

\* second revision: the recent activities of super_admin, admin and user
activitiesV2(freshTasks, freshNotifications) ==
    sortDesc(taskActivities(slice(freshTasks, 3))
                 \o notifActivities(slice(freshNotifications, 3)), "timestamp")

\* second revision: the recent activities of the company branch
companyActivities(companyTasks) ==
    sortDesc(taskActivities(slice(companyTasks, 3)), "timestamp")

-----------------------------------------------------------------------------
(* The dashboard: its requests and what the backend answers *)

\* a request of the dashboard; company_id = 0: no company_id parameter
Request(endpoint, company_id) == [endpoint |-> endpoint, company_id |-> company_id]

\* the statuses the backend answers the dashboard's requests with; an answer
\* 401 is the subject of the interceptor's properties
DashboardAnswers == {200, 403, 500}

inCompany(seq, company_id) ==
    IF company_id = 0 THEN seq
    ELSE SelectSeq(seq, LAMBDA x : x.company_id = company_id)

\* GET /companies
companyAPIlistCompanies(b) == b.companies

\* GET /users, with the company_id parameter when one is given
usersAPIgetUsers(b, request) == inCompany(b.users, request.company_id)

\* GET /tasks, with the company_id parameter when one is given
tasksAPIgetAllTasks(b, request) == inCompany(b.tasks, request.company_id)

\* the tasks assigned to the caller
tasksAPIgetMyTasks(b, user) ==
    SelectSeq(b.tasks, LAMBDA t : ToString(t.assignee) = user.id)

\* notificationAPI.getNotifications: a failure is caught and [] is returned
notificationsAPIgetNotifications(b, status) ==
    IF status = 200 THEN b.notifications ELSE <<>>

MsgUsersData     == "Failed to load users data"
MsgCompaniesData == "Failed to load companies data"
MsgCompanyData   == "Failed to load company data"
MsgDashboardV1   == "Failed to load dashboard data. Please try refreshing the page."
MsgDashboardV2   == "Failed to load dashboard data. Please try refreshing."

noLocals == [companyList |-> <<>>, freshTasks |-> <<>>, companyUsers |-> <<>>]

\* location.pathname.includes("/dashboard")
pathIncludesDashboard(path) == path \in {"/dashboard"}

\* the render: the spinner, the error panel with its Refresh Page button, or
\* the cards
spinnerShown == dashLoading
errorPanelShown == ~dashLoading /\ dashError # NoError

-----------------------------------------------------------------------------
(* The dashboard, first revision: computed from the AppContext collections *)

\* the effect: loadDashboardData up to its first await, if it has one
loadDashboardDataV1 ==
    /\ revision = 1
    /\ dashPc = "unmounted"
    /\ LET user == authState.user
       IN  /\ stats' = newStatsV1(user, app.tasks)
           /\ recentActivities' = activitiesV1(app.tasks, app.notifications)
           /\ dashError' = NoError
           /\ IF user # Null /\ user.role = "admin"
              THEN /\ requests' = Append(requests, Request("/users", 0))
                   /\ dashPc' = "users"
                   /\ dashLoading' = TRUE
                   /\ UNCHANGED companiesPc
              ELSE IF user # Null /\ user.role = "super_admin"
              THEN /\ requests' = Append(requests, Request("/companies", 0))
                   /\ dashPc' = "companies"
                   /\ companiesPc' = "awaiting"
                   /\ dashLoading' = TRUE
              ELSE /\ dashPc' = "done"
                   /\ dashLoading' = FALSE
                   /\ UNCHANGED <<requests, companiesPc>>
    /\ lastOp' = Op("loadDashboardData", "", 0)
    /\ UNCHANGED <<authVars, formVars, notifVars, uiVars, revision, backend, app, locals>>

\* loadUsers from the answer on, and the end of loadDashboardData
loadUsersResolve(status) ==
    /\ revision = 1
    /\ dashPc = "users"
    /\ IF status = 200
       THEN LET usersData == usersAPIgetUsers(backend, requests[Len(requests)])
            IN  /\ stats' = [stats EXCEPT !.totalUsers = Len(usersData),
                                          !.activeUsers = Len(SelectSeq(usersData, isActive)),
                                          !.inactiveUsers = Len(SelectSeq(usersData, isInactive))]
                /\ UNCHANGED dashError
       ELSE /\ dashError' = MsgUsersData
            /\ UNCHANGED stats
    /\ dashLoading' = FALSE
    /\ dashPc' = "done"
    /\ lastOp' = Op("loadUsersResolve", IF status = 200 THEN "ok" ELSE "failed", status)
    /\ UNCHANGED <<authVars, formVars, notifVars, uiVars, revision, backend, app, companiesPc,
                   recentActivities, locals, requests>>

\* loadCompanies from the answer on; in the first revision loadDashboardData
\* awaits it and ends after it
loadCompaniesResolve(status) ==
    /\ companiesPc = "awaiting"
    /\ IF status = 200
       THEN /\ stats' = [stats EXCEPT !.totalCompanies =
                                          Len(companyAPIlistCompanies(backend))]
            /\ UNCHANGED dashError
       ELSE /\ dashError' = MsgCompaniesData
            /\ UNCHANGED stats
    /\ companiesPc' = "done"
    /\ IF revision = 1
       THEN /\ dashLoading' = FALSE
            /\ dashPc' = "done"
       ELSE UNCHANGED <<dashLoading, dashPc>>
    /\ lastOp' = Op("loadCompaniesResolve", IF status = 200 THEN "ok" ELSE "failed", status)
    /\ UNCHANGED <<authVars, formVars, notifVars, uiVars, revision, backend, app,
                   recentActivities, locals, requests>>

-----------------------------------------------------------------------------
(* The dashboard, second revision: computed from collections it fetches *)

\* the catch and finally blocks of loadDashboardData
catchDashboard ==
    /\ dashError' = MsgDashboardV2
    /\ dashLoading' = FALSE
    /\ dashPc' = "done"

\* the effect: loadDashboardData up to its first await and, for a
\* super_admin, loadCompanies up to its await
loadDashboardDataV2 ==
    /\ revision = 2
    /\ dashPc = "unmounted"
    /\ pathIncludesDashboard(location)
    /\ dashLoading' = TRUE
    /\ dashError' = NoError
    /\ dashPc' = "companyList"
    /\ IF authState.user # Null /\ authState.user.role = "super_admin"
       THEN /\ requests' = requests \o <<Request("/companies", 0), Request("/companies", 0)>>
            /\ companiesPc' = "awaiting"
       ELSE /\ requests' = Append(requests, Request("/companies", 0))
            /\ UNCHANGED companiesPc
    /\ lastOp' = Op("loadDashboardData", "", 0)
    /\ UNCHANGED <<authVars, formVars, notifVars, uiVars, revision, backend, app, stats,
                   recentActivities, locals>>

\* from the answer to the first listCompanies to the next await; the branch
\* `role === "admin" && user.company_id` comes after `role === "admin"` and
\* is never taken
companyListResolve(status) ==
    /\ revision = 2
    /\ dashPc = "companyList"
    /\ IF status # 200
       THEN /\ catchDashboard
            /\ UNCHANGED <<locals, requests>>
       ELSE LET user == authState.user
            IN  /\ locals' = [locals EXCEPT !.companyList = companyAPIlistCompanies(backend)]
                /\ IF user # Null /\ user.role = "admin"
                   THEN /\ requests' = Append(requests, Request("/companies", 0))
                        /\ dashPc' = "adminCompanies"
                   ELSE IF user # Null /\ user.role = "company"
                   THEN /\ requests' = requests \o <<Request("/users", user.company_id),
                                                     Request("/tasks", user.company_id)>>
                        /\ dashPc' = "company"
                   ELSE /\ requests' = Append(requests, Request("/tasks/my", 0))
                        /\ dashPc' = "myTasks"
                /\ UNCHANGED <<dashLoading, dashError>>
    /\ lastOp' = Op("companyListResolve", IF status = 200 THEN "ok" ELSE "failed", status)
    /\ UNCHANGED <<authVars, formVars, notifVars, uiVars, revision, backend, app, companiesPc,
                   stats, recentActivities>>

\* the `role === "admin"` branch: the second listCompanies is answered
adminCompaniesResolve(status) ==
    /\ revision = 2
    /\ dashPc = "adminCompanies"
    /\ IF status # 200
       THEN /\ catchDashboard
            /\ UNCHANGED <<locals, requests>>
       ELSE /\ locals' = [locals EXCEPT !.companyList = companyAPIlistCompanies(backend)]
            /\ requests' = Append(requests, Request("/tasks", 0))
            /\ dashPc' = "adminTasks"
            /\ UNCHANGED <<dashLoading, dashError>>
    /\ lastOp' = Op("adminCompaniesResolve", IF status = 200 THEN "ok" ELSE "failed", status)
    /\ UNCHANGED <<authVars, formVars, notifVars, uiVars, revision, backend, app, companiesPc,
                   stats, recentActivities>>

\* the `role === "admin"` branch: tasksAPI.getAllTasks() is answered
adminTasksResolve(status) ==
    /\ revision = 2
    /\ dashPc = "adminTasks"
    /\ IF status # 200
       THEN /\ catchDashboard
            /\ UNCHANGED <<locals, requests>>
       ELSE /\ locals' = [locals EXCEPT !.freshTasks =
                              tasksAPIgetAllTasks(backend, requests[Len(requests)])]
            /\ requests' = Append(requests, Request("/users", 0))
            /\ dashPc' = "adminUsers"
            /\ UNCHANGED <<dashLoading, dashError>>
    /\ lastOp' = Op("adminTasksResolve", IF status = 200 THEN "ok" ELSE "failed", status)
    /\ UNCHANGED <<authVars, formVars, notifVars, uiVars, revision, backend, app, companiesPc,
                   stats, recentActivities>>

\* the `role === "admin"` branch: usersAPI.getUsers() is answered
adminUsersResolve(status) ==
    /\ revision = 2
    /\ dashPc = "adminUsers"
    /\ IF status # 200
       THEN /\ catchDashboard
            /\ UNCHANGED <<locals, requests>>
       ELSE /\ locals' = [locals EXCEPT !.companyUsers =
                              usersAPIgetUsers(backend, requests[Len(requests)])]
            /\ requests' = Append(requests, Request("/notifications", 0))
            /\ dashPc' = "notifications"
            /\ UNCHANGED <<dashLoading, dashError>>
    /\ lastOp' = Op("adminUsersResolve", IF status = 200 THEN "ok" ELSE "failed", status)
    /\ UNCHANGED <<authVars, formVars, notifVars, uiVars, revision, backend, app, companiesPc,
                   stats, recentActivities>>

\* the last branch: tasksAPI.getMyTasks() is answered
myTasksResolve(status) ==
    /\ revision = 2
    /\ dashPc = "myTasks"
    /\ IF status # 200
       THEN /\ catchDashboard
            /\ UNCHANGED <<locals, requests>>
       ELSE /\ locals' = [locals EXCEPT !.freshTasks =
                              tasksAPIgetMyTasks(backend, authState.user)]
            /\ requests' = Append(requests, Request("/notifications", 0))
            /\ dashPc' = "notifications"
            /\ UNCHANGED <<dashLoading, dashError>>
    /\ lastOp' = Op("myTasksResolve", IF status = 200 THEN "ok" ELSE "failed", status)
    /\ UNCHANGED <<authVars, formVars, notifVars, uiVars, revision, backend, app, companiesPc,
                   stats, recentActivities>>

\* the `role === "company"` branch from the answers of Promise.all on; useApp()
\* has no setTasks, so the tasks of the AppContext stay
companyResolve(statusUsers, statusTasks) ==
    /\ revision = 2
    /\ dashPc = "company"
    /\ IF statusUsers = 200 /\ statusTasks = 200
       THEN LET companyUsers == usersAPIgetUsers(backend, requests[Len(requests) - 1])
                companyTasks == tasksAPIgetAllTasks(backend, requests[Len(requests)])
            IN  /\ stats' = companyStats(companyUsers, companyTasks)
                /\ recentActivities' = companyActivities(companyTasks)
                /\ UNCHANGED dashError
       ELSE /\ dashError' = MsgCompanyData
            /\ UNCHANGED <<stats, recentActivities>>
    /\ dashLoading' = FALSE
    /\ dashPc' = "done"
    /\ lastOp' = Op("companyResolve",
                     IF statusUsers = 200 /\ statusTasks = 200 THEN "ok" ELSE "failed",
                     IF statusUsers # 200 THEN statusUsers ELSE statusTasks)
    /\ UNCHANGED <<authVars, formVars, notifVars, uiVars, revision, backend, app, companiesPc,
                   locals, requests>>

\* from the answer to getNotifications to the end of loadDashboardData
notificationsResolve(status) ==
    /\ revision = 2
    /\ dashPc = "notifications"
    /\ LET user == authState.user
           freshNotifications == notificationsAPIgetNotifications(backend, status)
       IN  /\ stats' = newStatsV2(user, locals.companyList, locals.companyUsers,
                                  locals.freshTasks)
           /\ IF user.role \in {"super_admin", "admin", "user"}
              THEN recentActivities' = activitiesV2(locals.freshTasks, freshNotifications)
              ELSE UNCHANGED recentActivities
    /\ dashLoading' = FALSE
    /\ dashPc' = "done"
    /\ lastOp' = Op("notificationsResolve", IF status = 200 THEN "ok" ELSE "failed", status)
    /\ UNCHANGED <<authVars, formVars, notifVars, uiVars, revision, backend, app, companiesPc,
                   dashError, locals, requests>>

-----------------------------------------------------------------------------
(* The page *)

\* the application is loaded at `path`: by the navigation the code asked
\* for, or by the user opening or reloading it.  Everything in memory starts
\* afresh and requests in flight are dropped; localStorage stays
PageLoad(path) ==
    /\ navigating => path = "/login"
    /\ location' = path
    /\ navigating' = FALSE
    /\ authState' = Mounting
    /\ initPc' = "start"
    /\ refreshPc' = "idle"
    /\ formPc' = "idle"
    /\ formLoading' = FALSE
    /\ formError' = NoError
    /\ regularResult' = Null
    /\ calls' = <<>>
    /\ notifPc' = "unmounted"
    /\ notifications' = <<>>
    /\ notifLoading' = TRUE
    /\ notifError' = NoError
    /\ lastOp' = Op("PageLoad", "", 0)
    /\ UNCHANGED <<storage, dashVars, uiVars>>

\* the dashboard before its effect has run
dashboardUnmounted ==
    /\ dashPc = "unmounted"
    /\ companiesPc = "idle"
    /\ stats = initialStats
    /\ recentActivities = <<>>
    /\ dashLoading = TRUE
    /\ dashError = NoError
    /\ locals = noLocals
    /\ requests = <<>>

\* Date.now() when the application is loaded
Epoch == 100

\* no task list and no task card is rendered
noCards ==
    /\ statusRequests = <<>>
    /\ taskList = Null

\* no form is open
noForm ==
    /\ openForm = "none"
    /\ userForm = Null
    /\ companyForm = Null
    /\ taskForm = Null
    /\ sent = <<>>

\* what an earlier visit can have left in localStorage
PersistedTokens == {NoToken, "t0"}
PersistedProfiles == {Null, JSONstringify(transformBackendUser(BackendAcme))}

Init ==
    /\ authState = Mounting
    /\ storage \in [access_token : PersistedTokens, auth : PersistedProfiles]
    /\ location \in Paths
    /\ navigating = FALSE
    /\ initPc = "start"
    /\ refreshPc = "idle"
    /\ formPc = "idle"
    /\ formLoading = FALSE
    /\ formError = NoError
    /\ regularResult = Null
    /\ calls = <<>>
    /\ notifPc = "unmounted"
    /\ notifications = <<>>
    /\ notifLoading = TRUE
    /\ notifError = NoError
    /\ lastOp = [name |-> "PageLoad", outcome |-> "", status |-> 0,
                 wasAuthenticated |-> FALSE]
    /\ revision = 1
    /\ backend = Backend(<<>>, <<>>)
    /\ app = AppState(<<>>, <<>>)
    /\ dashboardUnmounted
    /\ clock = Epoch
    /\ noCards
    /\ noForm

Next ==
    \/ initializeAuth
    \/ \E resp \in CurrentUserResponses("t0") : initializeAuthResolve(resp)
    \/ \E email \in Identities, password \in Secrets : handleSubmit(email, password)
    \/ \E resp \in LoginResponses("t1") : primaryLoginResolve(resp)
    \/ \E resp \in LoginResponses("t2") : companyLoginResolve(resp)
    \/ logout
    \/ \E user \in Users : updateUser(user)
    \/ refreshUser
    \/ \E resp \in CurrentUserResponses(IF refreshPc = "awaiting" THEN "t" ELSE NoToken) :
           refreshUserResolve(resp)
    \/ \E path \in Paths : PageLoad(path)

Spec == Init /\ [][Next]_vars

\* every request the store or the form awaits is answered or fails in the
\* end, and React runs the mount effect
Responsive ==
    /\ WF_vars(initializeAuth)
    /\ WF_vars(\E resp \in CurrentUserResponses("t0") : initializeAuthResolve(resp))
    /\ WF_vars(\E resp \in LoginResponses("t1") : primaryLoginResolve(resp))
    /\ WF_vars(\E resp \in LoginResponses("t2") : companyLoginResolve(resp))

SpecResponsive == Spec /\ Responsive

-----------------------------------------------------------------------------
(* A component that talks to the backend with fetch (Notifications.tsx) *)

MsgNotifications == "Failed to load notifications"

Notification(id, is_read) == [id |-> id, is_read |-> is_read]

\* answers to GET /notifications: status 0 stands for a request that failed
\* without an answer (fetch rejects)
FetchAnswer(status, data) == [status |-> status, data |-> data]

NotificationAnswers ==
    {FetchAnswer(200, <<Notification(1, FALSE)>>), FetchAnswer(401, <<>>),
     FetchAnswer(0, <<>>)}

\* response.ok
responseOk(answer) == answer.status >= 200 /\ answer.status <= 299

\* the component mounts and its effect runs fetchNotifications up to the
\* await; the notifications view belongs to the signed-in part of the
\* application
fetchNotifications ==
    /\ mounted
    /\ notifPc = "unmounted"
    /\ authState.isAuthenticated
    /\ notifPc' = "awaiting"
    /\ notifLoading' = TRUE
    /\ lastOp' = Op("fetchNotifications", "", 0)
    /\ UNCHANGED <<authVars, formVars, notifications, notifError, dashVars, uiVars>>

\* fetchNotifications from the answer on
fetchNotificationsResolve(answer) ==
    /\ notifPc = "awaiting"
    /\ IF responseOk(answer)
       THEN /\ notifications' = answer.data
            /\ UNCHANGED notifError
       ELSE /\ notifError' = MsgNotifications
            /\ UNCHANGED notifications
    /\ notifLoading' = FALSE
    /\ notifPc' = "idle"
    /\ lastOp' = Op("fetchNotificationsResolve",
                     IF responseOk(answer) THEN "ok" ELSE "failed", answer.status)
    /\ UNCHANGED <<authVars, formVars, dashVars, uiVars>>

NextApp ==
    \/ Next
    \/ fetchNotifications
    \/ \E answer \in NotificationAnswers : fetchNotificationsResolve(answer)

SpecApp == Init /\ [][NextApp]_vars

-----------------------------------------------------------------------------
(* The dashboard shown to a signed-in session *)

\* the dashboard is mounted at /dashboard for an authenticated session, over
\* some collections: those of the AppContext for the first revision, those
\* of the backend for the second
InitDashboard ==
    /\ authState \in DashboardSessions
    /\ storage = [access_token |-> "t0", auth |-> JSONstringify(authState.user)]
    /\ location = "/dashboard"
    /\ navigating = FALSE
    /\ initPc = "done"
    /\ refreshPc = "idle"
    /\ formPc = "idle"
    /\ formLoading = FALSE
    /\ formError = NoError
    /\ regularResult = Null
    /\ calls = <<>>
    /\ notifPc = "unmounted"
    /\ notifications = <<>>
    /\ notifLoading = TRUE
    /\ notifError = NoError
    /\ lastOp = [name |-> "initializeAuthResolve", outcome |-> "ok", status |-> 200,
                 wasAuthenticated |-> FALSE]
    /\ revision \in {1, 2}
    /\ \E tasks \in TaskLists, notifs \in NotificationLists :
           IF revision = 1
           THEN app = AppState(tasks, notifs) /\ backend = Backend(<<>>, <<>>)
           ELSE app = AppState(<<>>, <<>>) /\ backend = Backend(tasks, notifs)
    /\ dashboardUnmounted
    /\ clock = Epoch
    /\ noCards
    /\ noForm

NextDashboard ==
    \/ loadDashboardDataV1
    \/ \E status \in DashboardAnswers : loadUsersResolve(status)
    \/ \E status \in DashboardAnswers : loadCompaniesResolve(status)
    \/ loadDashboardDataV2
    \/ \E status \in DashboardAnswers : companyListResolve(status)
    \/ \E status \in DashboardAnswers : adminCompaniesResolve(status)
    \/ \E status \in DashboardAnswers : adminTasksResolve(status)
    \/ \E status \in DashboardAnswers : adminUsersResolve(status)
    \/ \E status \in DashboardAnswers : myTasksResolve(status)
    \/ \E statusUsers \in DashboardAnswers, statusTasks \in DashboardAnswers :
           companyResolve(statusUsers, statusTasks)
    \/ \E status \in DashboardAnswers : notificationsResolve(status)

SpecDashboard == InitDashboard /\ [][NextDashboard]_vars

-----------------------------------------------------------------------------
(* The application store (AppContext.tsx) *)

\* a string, as the sequence of its characters
Text(chars) == chars

\* a task of the store; the presentation-only fields dueDate, completedAt
\* and tags are left out
StoreTask(id, title, status, priority, assignedTo, assignedBy, createdAt) ==
    [id |-> id, title |-> title, description |-> Text(<<>>), status |-> status,
     priority |-> priority, assignedTo |-> assignedTo, assignedBy |-> assignedBy,
     createdAt |-> createdAt]

\* the tasks the provider is constructed with
InitialTasks ==
    <<StoreTask("1", Text(<<"D", "e">>), "in-progress", "high", "2", "1", 15),
      StoreTask("2", Text(<<"D", "B">>), "pending", "urgent", "3", "1", 14),
      StoreTask("3", Text(<<"U", "X">>), "completed", "medium", "4", "1", 10)>>

StoreNotification(id, userId, isRead, createdAt) ==
    [id |-> id, userId |-> userId, isRead |-> isRead, createdAt |-> createdAt]

\* the notifications the provider is constructed with
InitialNotifications ==
    <<StoreNotification("1", "2", FALSE, 15), StoreNotification("2", "3", FALSE, 18)>>

\* what addTask, addUser and addNotification are called with: an object
\* without id and createdAt
NewTasks == {[title |-> Text(<<"N">>), description |-> Text(<<>>), status |-> "pending",
              priority |-> "low", assignedTo |-> "2", assignedBy |-> "1"]}
NewUsers == {[name |-> "new", role |-> "user", isActive |-> TRUE]}
NewNotifications == {[userId |-> "2", isRead |-> FALSE]}

\* Partial<Task> / Partial<User> objects passed to the update methods
TaskUpdates == {[status |-> "completed"]}
UserUpdates == {[isActive |-> FALSE]}

\* the last reading of the clock
MaxClock == 101

\* ids the callers name: those of the items of the collection, and one that
\* no item has
idsNamed(seq) == {seq[i].id : i \in 1..Len(seq)} \cup {"0"}

\* the collections hold at most MaxItems items, that of the users, which is
\* empty at first, at most MaxUsers
MaxItems == 3
MaxUsers == 1

\* { ...item, ...updates }
spread(item, updates) ==
    [k \in DOMAIN item \cup DOMAIN updates |->
        IF k \in DOMAIN updates THEN updates[k] ELSE item[k]]

\* { ...item, id: Date.now().toString(), createdAt: new Date() }
stamped(item) == spread(item, [id |-> ToString(clock), createdAt |-> clock])

\* prev.map(item => item.id === id ? { ...item, ...updates } : item)
mapUpdate(prev, id, updates) ==
    [i \in 1..Len(prev) |-> IF prev[i].id = id THEN spread(prev[i], updates) ELSE prev[i]]

\* prev.filter(item => item.id !== id)
filterOut(prev, id) == SelectSeq(prev, LAMBDA item : item.id # id)

\* time passes
tick ==
    /\ clock < MaxClock
    /\ clock' = clock + 1
    /\ lastOp' = Op("tick", "", 0)
    /\ UNCHANGED <<authVars, formVars, notifVars, dashVars, statusRequests, taskList,
                   openForm, userForm, companyForm, taskForm, sent>>

storeUnchanged ==
    UNCHANGED <<authVars, formVars, notifVars, uiVars, revision, backend, dashPc,
                companiesPc, stats, recentActivities, dashLoading, dashError, locals,
                requests>>

addTask(task) ==
    /\ Len(app.tasks) < MaxItems
    /\ app' = [app EXCEPT !.tasks = Append(@, stamped(task))]
    /\ lastOp' = Op("addTask", "", 0)
    /\ storeUnchanged

updateTask(id, updates) ==
    /\ app' = [app EXCEPT !.tasks = mapUpdate(@, id, updates)]
    /\ lastOp' = Op("updateTask", "", 0)
    /\ storeUnchanged

deleteTask(id) ==
    /\ app' = [app EXCEPT !.tasks = filterOut(@, id)]
    /\ lastOp' = Op("deleteTask", "", 0)
    /\ storeUnchanged

addUser(user) ==
    /\ Len(app.users) < MaxUsers
    /\ app' = [app EXCEPT !.users = Append(@, stamped(user))]
    /\ lastOp' = Op("addUser", "", 0)
    /\ storeUnchanged

\* AppContext's updateUser(id, updates), not the session store's
updateStoreUser(id, updates) ==
    /\ app' = [app EXCEPT !.users = mapUpdate(@, id, updates)]
    /\ lastOp' = Op("updateStoreUser", "", 0)
    /\ storeUnchanged

deleteUser(id) ==
    /\ app' = [app EXCEPT !.users = filterOut(@, id)]
    /\ lastOp' = Op("deleteUser", "", 0)
    /\ storeUnchanged

\* the new notification is put first
addNotification(notification) ==
    /\ Len(app.notifications) < MaxItems
    /\ app' = [app EXCEPT !.notifications = <<stamped(notification)>> \o @]
    /\ lastOp' = Op("addNotification", "", 0)
    /\ storeUnchanged

markNotificationAsRead(id) ==
    /\ app' = [app EXCEPT !.notifications = mapUpdate(@, id, [isRead |-> TRUE])]
    /\ lastOp' = Op("markNotificationAsRead", "", 0)
    /\ storeUnchanged

\* a session that has signed in, on the page `path`
signedIn(user, path) ==
    /\ authState = Authenticated(user)
    /\ storage = [access_token |-> "t0", auth |-> JSONstringify(user)]
    /\ location = path
    /\ navigating = FALSE
    /\ initPc = "done"
    /\ refreshPc = "idle"
    /\ formPc = "idle"
    /\ formLoading = FALSE
    /\ formError = NoError
    /\ regularResult = Null
    /\ calls = <<>>
    /\ notifPc = "unmounted"
    /\ notifications = <<>>
    /\ notifLoading = TRUE
    /\ notifError = NoError
    /\ lastOp = [name |-> "initializeAuthResolve", outcome |-> "ok", status |-> 200,
                 wasAuthenticated |-> FALSE]

\* the provider as constructed, under a signed-in session
InitStore ==
    /\ signedIn(transformBackendUser(BackendAcme), "/dashboard")
    /\ revision = 1
    /\ backend = Backend(<<>>, <<>>)
    /\ app = AppState(InitialTasks, InitialNotifications)
    /\ dashboardUnmounted
    /\ clock = Epoch
    /\ noCards
    /\ noForm

NextStore ==
    \/ tick
    \/ \E task \in NewTasks : addTask(task)
    \/ \E id \in idsNamed(app.tasks), updates \in TaskUpdates : updateTask(id, updates)
    \/ \E id \in idsNamed(app.tasks) : deleteTask(id)
    \/ \E user \in NewUsers : addUser(user)
    \/ \E id \in idsNamed(app.users), updates \in UserUpdates : updateStoreUser(id, updates)
    \/ \E id \in idsNamed(app.users) : deleteUser(id)
    \/ \E notification \in NewNotifications : addNotification(notification)
    \/ \E id \in idsNamed(app.notifications) : markNotificationAsRead(id)

SpecStore == InitStore /\ [][NextStore]_vars

-----------------------------------------------------------------------------
(* The task card (TaskCard.tsx) *)

\* the tasks the cards are rendered for
CardTasks ==
    <<StoreTask("1", Text(<<"D", "e">>), "pending", "high", "3", "2", 15),
      StoreTask("2", Text(<<"D", "B">>), "in_progress", "urgent", "3", "2", 14),
      StoreTask("3", Text(<<"U", "X">>), "pending", "medium", "2", "1", 10),
      StoreTask("4", Text(<<"Q", "A">>), "in-progress", "low", "3", "2", 12),
      StoreTask("5", Text(<<"C", "I">>), "in_progress", "low", "2", "1", 11)>>

\* the sessions that look at the cards
CardSessions == {transformBackendUser(BackendStaff), transformBackendUser(BackendAcme)}

\* at most MaxInFlight status requests await their answer
MaxInFlight == 2

\* answers to PUT /tasks/{id}/status; 0: the fetch itself fails
StatusAnswers == {200, 403, 0}

\* the button the card shows for `task`: the status it asks for, "" if none
buttonOf(user, task) ==
    IF user # Null /\ user.id = task.assignedTo /\ task.status # "completed"
    THEN IF task.status = "pending" THEN "in_progress"
         ELSE IF task.status = "in_progress" THEN "completed"
         ELSE ""
    ELSE ""

cardUnchanged ==
    UNCHANGED <<authVars, formVars, notifVars, revision, backend, dashPc, companiesPc,
                stats, recentActivities, dashLoading, dashError, locals, requests,
                clock, taskList, openForm, userForm, companyForm, taskForm, sent>>

\* a click on the Start / Complete button of the i-th card: handleStatusChange
\* up to its await, with the task the card was rendered with
handleStatusChange(i) ==
    /\ i \in 1..Len(app.tasks)
    /\ buttonOf(authState.user, app.tasks[i]) # ""
    /\ Len(statusRequests) < MaxInFlight
    /\ statusRequests' = Append(statusRequests,
                                [task |-> app.tasks[i],
                                 newStatus |-> buttonOf(authState.user, app.tasks[i])])
    /\ lastOp' = Op("handleStatusChange", "", 0)
    /\ UNCHANGED app
    /\ cardUnchanged

\* handleStatusChange from the answer on; the answers come in any order
handleStatusChangeResolve(k, answer) ==
    /\ k \in 1..Len(statusRequests)
    /\ LET request == statusRequests[k]
       IN  IF answer >= 200 /\ answer <= 299
           THEN app' = [app EXCEPT !.tasks =
                            mapUpdate(@, request.task.id,
                                      spread(request.task, [status |-> request.newStatus]))]
           ELSE UNCHANGED app
    /\ statusRequests' = remove(statusRequests, k)
    /\ lastOp' = Op("handleStatusChangeResolve",
                     IF answer = 200 THEN "ok" ELSE "failed", answer)
    /\ cardUnchanged

InitTaskCard ==
    /\ \E user \in CardSessions : signedIn(user, "/dashboard")
    /\ revision = 1
    /\ backend = Backend(<<>>, <<>>)
    /\ app = AppState(CardTasks, <<>>)
    /\ dashboardUnmounted
    /\ clock = Epoch
    /\ noCards
    /\ noForm

NextTaskCard ==
    \/ \E i \in 1..Len(CardTasks) : handleStatusChange(i)
    \/ \E k \in 1..MaxInFlight, answer \in StatusAnswers : handleStatusChangeResolve(k, answer)

SpecTaskCard == InitTaskCard /\ [][NextTaskCard]_vars

-----------------------------------------------------------------------------
(* The task list (TaskList.tsx, both revisions): loading and filtering *)

\* a task as GET /tasks and GET /my-tasks return it; "" and 0 stand for a
\* field that is missing
BackendTask(id, title, priority, status, assignee, created_by) ==
    [id |-> id, title |-> title, description |-> Text(<<>>), priority |-> priority,
     status |-> status, assigned_to_id |-> assignee, created_by |-> created_by,
     created_at |-> id]

\* tasks assigned to and created by the admin (2), the user (3) and others
ListBackendTasks ==
    <<BackendTask(1, Text(<<"D", "e">>), "high", "pending", 3, 2),
      BackendTask(2, Text(<<"D", "B">>), "", "in_progress", 2, 1),
      BackendTask(3, Text(<<"U", "X">>), "high", "completed", 4, 3),
      BackendTask(4, Text(<<"d", "b">>), "low", "", 4, 1)>>

ListSessions ==
    {transformBackendUser(b) : b \in {BackendRoot, BackendAcme, BackendStaff}}

\* what is typed into the search box and chosen in the three selectors
SearchTerms == {Text(<<>>), Text(<<"D">>), Text(<<"x">>)}
StatusFilters == {"all", "pending", "in-progress", "completed"}
PriorityFilters == {"all", "high"}
AssignmentFilters == {"all", "assigned_to_me", "assigned_by_me"}

ListAnswers == {200, 500}

Lower == ("D" :> "d") @@ ("B" :> "b") @@ ("U" :> "u") @@ ("X" :> "x")

toLowerCase(text) ==
    [i \in 1..Len(text) |-> IF text[i] \in DOMAIN Lower THEN Lower[text[i]] ELSE text[i]]

\* text.includes(term)
includes(text, term) ==
    \E k \in 0..(Len(text) - Len(term)) : SubSeq(text, k + 1, k + Len(term)) = term

\* the object fetchTasks makes of a backend task
transformTask(task) ==
    [id          |-> ToString(task.id),
     title       |-> task.title,
     description |-> task.description,
     priority    |-> IF task.priority = "" THEN "medium" ELSE task.priority,
     status      |-> IF task.status = "in_progress" THEN "in-progress"
                     ELSE IF task.status = "" THEN "pending" ELSE task.status,
     assignedTo  |-> IF task.assigned_to_id = 0 THEN "" ELSE ToString(task.assigned_to_id),
     assignedBy  |-> IF task.created_by = 0 THEN "" ELSE ToString(task.created_by),
     createdAt   |-> task.created_at]

transformedTasks(backendTasks) ==
    [i \in 1..Len(backendTasks) |-> transformTask(backendTasks[i])]

\* the endpoint fetchTasks asks
listEndpoint(user) == IF user.role = "admin" THEN "/tasks" ELSE "/my-tasks"

\* what the backend may answer to it: every task to /tasks; to /my-tasks the
\* tasks assigned to the caller, with or without the tasks the caller created
listAnswers(b, user) ==
    IF listEndpoint(user) = "/tasks" THEN {b.tasks}
    ELSE {SelectSeq(b.tasks, LAMBDA t : ToString(t.assigned_to_id) = user.id),
          SelectSeq(b.tasks, LAMBDA t : \/ ToString(t.assigned_to_id) = user.id
                                        \/ ToString(t.created_by) = user.id)}

matchesSearch(task, f) ==
    \/ includes(toLowerCase(task.title), toLowerCase(f.searchTerm))
    \/ includes(toLowerCase(task.description), toLowerCase(f.searchTerm))

matchesStatus(task, f) == f.statusFilter = "all" \/ task.status = f.statusFilter

matchesPriority(task, f) == f.priorityFilter = "all" \/ task.priority = f.priorityFilter

assignedToMe(tasks, user) == SelectSeq(tasks, LAMBDA t : t.assignedTo = user.id)

assignedByMe(tasks, user) == SelectSeq(tasks, LAMBDA t : t.assignedBy = user.id)

\* Array.from(new Set(ids)).map(id => tasks.find(task => task.id === id))
RECURSIVE uniqueById(_)
uniqueById(tasks) ==
    IF tasks = <<>> THEN <<>>
    ELSE <<Head(tasks)>> \o
         uniqueById(SelectSeq(Tail(tasks), LAMBDA t : t.id # Head(tasks).id))

\* first revision
allFilteredTasks(tasks, user, f) ==
    SelectSeq(tasks, LAMBDA t :
        /\ matchesSearch(t, f) /\ matchesStatus(t, f) /\ matchesPriority(t, f)
        /\ user.role # "admin" => t.assignedTo = user.id)

tasksToDisplay(tasks, user, f) ==
    LET all == allFilteredTasks(tasks, user, f)
    IN  IF f.assignmentFilter = "assigned_to_me" THEN assignedToMe(all, user)
        ELSE IF f.assignmentFilter = "assigned_by_me" THEN assignedByMe(all, user)
        ELSE uniqueById(assignedToMe(all, user) \o assignedByMe(all, user))

\* second revision
filteredTasks(tasks, user, f) ==
    SelectSeq(tasks, LAMBDA t :
        /\ matchesSearch(t, f) /\ matchesStatus(t, f) /\ matchesPriority(t, f)
        /\ f.assignmentFilter = "assigned_to_me" => t.assignedTo = user.id
        /\ f.assignmentFilter = "assigned_by_me" => t.assignedBy = user.id
        /\ user.role # "admin" => (t.assignedTo = user.id \/ t.assignedBy = user.id))

\* the cards the list renders
rendered(tasks, user, f) ==
    IF revision = 1 THEN tasksToDisplay(tasks, user, f) ELSE filteredTasks(tasks, user, f)

\* the component as constructed
listMounted ==
    [searchTerm |-> Text(<<>>), statusFilter |-> "all", priorityFilter |-> "all",
     assignmentFilter |-> "all", loading |-> TRUE, error |-> NoError,
     pc |-> "unmounted", displayed |-> <<>>]

\* the spinner and the error panel are returned before the list
listShown == taskList # Null /\ ~taskList.loading /\ taskList.error = NoError

listUnchanged ==
    UNCHANGED <<authVars, formVars, notifVars, dashVars, clock, statusRequests,
                openForm, userForm, companyForm, taskForm, sent>>

\* the mount effect, or the Retry button of the error panel: fetchTasks up
\* to its await
fetchTasks ==
    /\ taskList # Null
    /\ \/ taskList.pc = "unmounted"
       \/ taskList.pc = "idle" /\ taskList.error # NoError
    /\ taskList' = [taskList EXCEPT !.loading = TRUE, !.error = NoError, !.pc = "awaiting"]
    /\ lastOp' = Op("fetchTasks", "", 0)
    /\ listUnchanged

\* fetchTasks from the answer on: updateTasks(transformedTasks) or the error
fetchTasksResolve(status, backendTasks) ==
    /\ taskList # Null
    /\ taskList.pc = "awaiting"
    /\ IF status = 200
       THEN LET tasks == transformedTasks(backendTasks)
            IN  /\ taskList' = [taskList EXCEPT
                                   !.loading = FALSE, !.pc = "idle",
                                   !.displayed = rendered(tasks, authState.user, taskList)]
                /\ app' = [app EXCEPT !.tasks = tasks]
       ELSE /\ taskList' = [taskList EXCEPT !.loading = FALSE, !.pc = "idle",
                                            !.error = "HTTP error! status: 500"]
            /\ UNCHANGED app
    /\ lastOp' = Op("fetchTasksResolve", IF status = 200 THEN "ok" ELSE "failed", status)
    /\ UNCHANGED <<authVars, formVars, notifVars, revision, backend, dashPc, companiesPc,
                   stats, recentActivities, dashLoading, dashError, locals, requests,
                   clock, statusRequests, openForm, userForm, companyForm, taskForm, sent>>

\* the list rendered again after one of its filters was set
withFilters(f) == [f EXCEPT !.displayed = rendered(app.tasks, authState.user, f)]

setSearchTerm(term) ==
    /\ listShown
    /\ taskList' = withFilters([taskList EXCEPT !.searchTerm = term])
    /\ lastOp' = Op("setSearchTerm", "", 0)
    /\ listUnchanged

setStatusFilter(value) ==
    /\ listShown
    /\ taskList' = withFilters([taskList EXCEPT !.statusFilter = value])
    /\ lastOp' = Op("setStatusFilter", "", 0)
    /\ listUnchanged

setPriorityFilter(value) ==
    /\ listShown
    /\ taskList' = withFilters([taskList EXCEPT !.priorityFilter = value])
    /\ lastOp' = Op("setPriorityFilter", "", 0)
    /\ listUnchanged

\* the first revision offers 'assigned_by_me' to admins and to users who may
\* assign tasks (canAssignTasks() of useAuth, taken to be the user's flag)
setAssignmentFilter(value) ==
    /\ listShown
    /\ (revision = 1 /\ value = "assigned_by_me") =>
           (authState.user.role = "admin" \/ authState.user.canAssignTasks)
    /\ taskList' = withFilters([taskList EXCEPT !.assignmentFilter = value])
    /\ lastOp' = Op("setAssignmentFilter", "", 0)
    /\ listUnchanged

InitTaskList ==
    /\ \E user \in ListSessions : signedIn(user, "/dashboard")
    /\ revision \in {1, 2}
    /\ backend = Backend(ListBackendTasks, <<>>)
    /\ app = AppState(<<>>, <<>>)
    /\ dashboardUnmounted
    /\ clock = Epoch
    /\ statusRequests = <<>>
    /\ taskList = listMounted
    /\ noForm

NextTaskList ==
    \/ fetchTasks
    \/ \E status \in ListAnswers, backendTasks \in listAnswers(backend, authState.user) :
           fetchTasksResolve(status, backendTasks)
    \/ \E term \in SearchTerms : setSearchTerm(term)
    \/ \E value \in StatusFilters : setStatusFilter(value)
    \/ \E value \in PriorityFilters : setPriorityFilter(value)
    \/ \E value \in AssignmentFilters : setAssignmentFilter(value)

SpecTaskList == InitTaskList /\ [][NextTaskList]_vars

-----------------------------------------------------------------------------
(* The forms: what is common to them *)

\* text.trim(): without the blanks at both ends
trim(text) ==
    LET inked == {i \in 1..Len(text) : text[i] # " "}
    IN  IF inked = {} THEN <<>>
        ELSE SubSeq(text, CHOOSE i \in inked : \A j \in inked : i <= j,
                          CHOOSE i \in inked : \A j \in inked : j <= i)

\* the most requests one mounted form issues
MaxSent == 1

\* everything but the mounted form, the requests and the store
formsRest ==
    <<authVars, formVars, notifVars, revision, backend, dashPc, companiesPc, stats,
      recentActivities, dashLoading, dashError, locals, requests, clock,
      statusRequests, taskList, openForm>>

-----------------------------------------------------------------------------
(* The multi-assignee task form (TaskForm.tsx) *)

UserData(id, role, is_active) == [id |-> id, role |-> role, is_active |-> is_active]

\* what GET /users returns
ListedUsers ==
    {UserData(1, "super_admin", TRUE), UserData(2, "admin", TRUE),
     UserData(3, "user", TRUE), UserData(5, "admin", FALSE)}

UsersAnswers == {200, 500}

TaskTitles == {Text(<<>>), Text(<<" ">>), Text(<<"T">>)}
DueDates == {"", "2025-06-01"}

GroupTypes == {"allAdmins", "allUsers", "everyone"}

MsgTitleRequired    == "Task title is required"
MsgSelectUser       == "Please select at least one user to assign the task to"
MsgDueDateRequired  == "Due date is required"
MsgAssigned         == "Task successfully assigned"
MsgNoneAssigned     == "Failed to assign task to any users. Please try again."

noGroups == [admins |-> {}, users |-> {}, all |-> {}]
noGroupSelections == [allAdmins |-> FALSE, allUsers |-> FALSE, everyone |-> FALSE]

\* u.id !== user?.id compares the number of the listing with the string
\* transformBackendUser made of the id: the two are never strictly equal
strictlyEqual(number, string) == FALSE

\* the groups fetchUsers makes of the listing (as sets of ids)
groupsOf(data, user) ==
    LET filteredUsers == {u \in data : ~strictlyEqual(u.id, user.id) /\ u.is_active}
    IN  [admins |-> {u.id : u \in {v \in filteredUsers : v.role = "admin"}},
         users  |-> {u.id : u \in {v \in filteredUsers : v.role = "user"}},
         all    |-> {u.id : u \in filteredUsers}]

\* the component as constructed
taskFormMounted ==
    [title |-> Text(<<>>), dueDate |-> "", userGroups |-> noGroups,
     usersLoading |-> TRUE, usersError |-> NoError, selectedUsers |-> {},
     groupSelections |-> noGroupSelections, showToast |-> FALSE,
     toastMessage |-> "", toastType |-> "success", isLoading |-> FALSE,
     pc |-> "unmounted"]

taskFormOpen == openForm = "task" /\ taskForm.pc \in {"idle", "closing"}

\* the inputs are disabled while a submission is in progress
taskFormEditable == taskFormOpen /\ ~taskForm.isLoading

\* the selection controls are rendered once the users are loaded
selectionShown ==
    taskFormEditable /\ ~taskForm.usersLoading /\ taskForm.usersError = NoError

taskFormUnchanged == UNCHANGED <<formsRest, app, userForm, companyForm, sent>>

\* the mount effect: fetchUsers up to its await
fetchUsers ==
    /\ openForm = "task"
    /\ taskForm.pc = "unmounted"
    /\ taskForm' = [taskForm EXCEPT !.usersLoading = TRUE, !.usersError = NoError,
                                    !.pc = "idle"]
    /\ lastOp' = Op("fetchUsers", "", 0)
    /\ taskFormUnchanged

\* fetchUsers from the answer on
fetchUsersResolve(status) ==
    /\ openForm = "task"
    /\ taskForm.pc # "unmounted"
    /\ taskForm.usersLoading
    /\ taskForm' =
           IF status = 200
           THEN [taskForm EXCEPT !.userGroups = groupsOf(ListedUsers, authState.user),
                                 !.usersLoading = FALSE]
           ELSE [taskForm EXCEPT !.usersError = "Failed to load users",
                                 !.usersLoading = FALSE]
    /\ lastOp' = Op("fetchUsersResolve", IF status = 200 THEN "ok" ELSE "failed", status)
    /\ taskFormUnchanged

setTitle(title) ==
    /\ taskFormEditable
    /\ taskForm' = [taskForm EXCEPT !.title = title]
    /\ lastOp' = Op("setTitle", "", 0)
    /\ taskFormUnchanged

setDueDate(dueDate) ==
    /\ taskFormEditable
    /\ taskForm' = [taskForm EXCEPT !.dueDate = dueDate]
    /\ lastOp' = Op("setDueDate", "", 0)
    /\ taskFormUnchanged

\* the users a group checkbox stands for
groupMembers(groups, groupType) ==
    IF groupType = "everyone" THEN groups.all
    ELSE IF groupType = "allAdmins" THEN groups.admins
    ELSE groups.users

handleGroupSelection(groupType) ==
    /\ selectionShown
    /\ LET checked == ~taskForm.groupSelections[groupType]
           toggled == [taskForm.groupSelections EXCEPT ![groupType] = checked]
           members == groupMembers(taskForm.userGroups, groupType)
       IN  taskForm' =
               IF checked
               THEN [taskForm EXCEPT
                        !.groupSelections =
                            IF groupType = "everyone"
                            THEN [toggled EXCEPT !.allAdmins = FALSE, !.allUsers = FALSE]
                            ELSE [toggled EXCEPT !.everyone = FALSE],
                        !.selectedUsers = members]
               ELSE [taskForm EXCEPT
                        !.groupSelections = toggled,
                        !.selectedUsers = IF groupType = "everyone" THEN {}
                                          ELSE taskForm.selectedUsers \ members]
    /\ lastOp' = Op("handleGroupSelection", groupType, 0)
    /\ taskFormUnchanged

\* group.every(u => selected.has(u.id)) && group.length > 0
wholeGroup(group, selected) == group \subseteq selected /\ group # {}

handleUserSelection(userId) ==
    /\ selectionShown
    /\ userId \in taskForm.userGroups.admins \cup taskForm.userGroups.users
    /\ LET newSelectedUsers ==
               IF userId \in taskForm.selectedUsers
               THEN taskForm.selectedUsers \ {userId}
               ELSE taskForm.selectedUsers \cup {userId}
       IN  taskForm' = [taskForm EXCEPT
               !.selectedUsers = newSelectedUsers,
               !.groupSelections =
                   [allAdmins |-> wholeGroup(taskForm.userGroups.admins, newSelectedUsers),
                    allUsers  |-> wholeGroup(taskForm.userGroups.users, newSelectedUsers),
                    everyone  |-> wholeGroup(taskForm.userGroups.all, newSelectedUsers)]]
    /\ lastOp' = Op("handleUserSelection", "", 0)
    /\ taskFormUnchanged

\* the first check of handleSubmit that fails, "" if none does
taskFormInvalid(form) ==
    IF trim(form.title) = <<>> THEN MsgTitleRequired
    ELSE IF form.selectedUsers = {} THEN MsgSelectUser
    ELSE IF form.dueDate = "" THEN MsgDueDateRequired
    ELSE ""

\* POST /tasks/bulk as createTasksForUsers sends it
bulkRequest(form) ==
    [endpoint |-> "/tasks/bulk", title |-> trim(form.title),
     assigned_to |-> form.selectedUsers, due_date |-> form.dueDate]

\* the submit event of the form: handleSubmit up to the await in
\* createTasksForUsers. The submit button is disabled while nobody is
\* selected, and the title and due date inputs are `required`: the browser
\* submits the form only with both filled in (a blank title counts as filled)
taskFormSubmit ==
    /\ taskFormEditable
    /\ taskForm.selectedUsers # {}
    /\ taskForm.title # <<>>
    /\ taskForm.dueDate # ""
    /\ Len(sent) < MaxSent
    /\ IF taskFormInvalid(taskForm) # ""
       THEN /\ taskForm' = [taskForm EXCEPT !.toastMessage = taskFormInvalid(taskForm),
                                            !.toastType = "error", !.showToast = TRUE,
                                            !.isLoading = FALSE]
            /\ sent' = sent
            /\ lastOp' = Op("taskFormSubmit", "invalid", 0)
       ELSE /\ taskForm' = [taskForm EXCEPT !.isLoading = TRUE]
            /\ sent' = Append(sent, bulkRequest(taskForm))
            /\ lastOp' = Op("taskFormSubmit", "sent", 0)
    /\ UNCHANGED <<formsRest, app, userForm, companyForm>>

\* how a submission may end: the bulk request succeeds for every user, or it
\* fails and the requests made for each user in turn all succeed or all fail
SubmissionAnswers == {"bulk", "each", "none"}

\* the notifications added for the users the task was assigned to
RECURSIVE assignedNotifications(_)
assignedNotifications(userIds) ==
    IF userIds = {} THEN <<>>
    ELSE LET id == CHOOSE i \in userIds : \A j \in userIds : i >= j
         IN  <<stamped([userId |-> ToString(id), isRead |-> FALSE])>> \o
             assignedNotifications(userIds \ {id})

\* POST /tasks for each user in turn, after the bulk request failed
RECURSIVE eachRequest(_, _)
eachRequest(form, userIds) ==
    IF userIds = {} THEN <<>>
    ELSE LET id == CHOOSE i \in userIds : \A j \in userIds : i <= j
         IN  <<[endpoint |-> "/tasks", title |-> trim(form.title), assigned_to |-> {id},
                due_date |-> form.dueDate]>> \o eachRequest(form, userIds \ {id})

\* handleSubmit from the answer to the bulk request on
taskFormResolve(answer) ==
    /\ openForm = "task"
    /\ taskForm.isLoading
    /\ LET userIds == sent[Len(sent)].assigned_to
           successful == IF answer = "none" THEN {} ELSE userIds
       IN  /\ sent' = IF answer = "bulk" THEN sent
                      ELSE sent \o eachRequest(taskForm, userIds)
           /\ app' = [app EXCEPT !.notifications = assignedNotifications(successful) \o @]
           /\ taskForm' = [taskForm EXCEPT
                  !.title = Text(<<>>), !.dueDate = "", !.selectedUsers = {},
                  !.groupSelections = noGroupSelections,
                  !.toastMessage = IF successful = {} THEN MsgNoneAssigned ELSE MsgAssigned,
                  !.toastType = IF successful = {} THEN "error" ELSE "success",
                  !.showToast = TRUE, !.isLoading = FALSE,
                  !.pc = IF successful = {} \/ @ = "closed" THEN @ ELSE "closing"]
    /\ lastOp' = Op("taskFormResolve", answer, 0)
    /\ UNCHANGED <<formsRest, userForm, companyForm>>

\* the timer set after a successful assignment: onClose()
taskFormClose ==
    /\ openForm = "task"
    /\ taskForm.pc = "closing"
    /\ taskForm' = [taskForm EXCEPT !.pc = "closed"]
    /\ lastOp' = Op("taskFormClose", "", 0)
    /\ taskFormUnchanged

-----------------------------------------------------------------------------
(* The user form (UserForm.tsx, both revisions) *)

\* an admin account that belongs to no company
BackendLoneAdmin ==
    [id |-> 6, email |-> Email("lone", "taskflow.io"), username |-> "lone",
     role |-> "admin", is_active |-> TRUE, company_id |-> 0,
     can_assign_tasks |-> FALSE, created_at |-> "2024-05-01"]

FormSessions ==
    {transformBackendUser(b) : b \in {BackendRoot, BackendAcme, BackendLoneAdmin}}

\* the user prop of the first revision in edit mode
EditedUser ==
    [id |-> 3, email |-> Text(<<"a", "@", "b", ".", "c">>),
     username |-> Text(<<"a", "b", "c">>), company_id |-> 1]

FormModes == {"create", "edit"}

FormEmails == {Text(<<>>), Text(<<"a", "@", "b">>), Text(<<"a", "@", "b", ".", "c">>)}
FormUsernames == {Text(<<>>), Text(<<"a", "b">>), Text(<<"a", "b", "c">>)}
FormPasswords ==
    {Text(<<>>), Text(<<"p", "w">>), Text(<<"s", "e", "c", "r", "e", "t">>)}

\* the companies GET /companies lists; 0 stands for no company (null, '')
Companies == {1, 2}
FormCompanies == {0} \cup Companies

UserFormKeys == {"email", "username", "password", "company_id"}

FormValues(key) ==
    IF key = "email" THEN FormEmails
    ELSE IF key = "username" THEN FormUsernames
    ELSE IF key = "password" THEN FormPasswords
    ELSE FormCompanies

\* /^[^\s@]+@[^\s@]+\.[^\s@]+$/.test(email)
validEmail(email) ==
    /\ \A i \in 1..Len(email) : email[i] # " "
    /\ \E at \in 2..Len(email) :
          /\ email[at] = "@"
          /\ \A i \in 1..Len(email) : email[i] = "@" => i = at
          /\ \E dot \in (at + 2)..(Len(email) - 1) : email[dot] = "."

MinUsername == 3
MinPassword == 6

noUserErrors ==
    [email |-> "", username |-> "", password |-> "", company_id |-> "", general |-> ""]

\* newErrors of validateForm (first revision)
validateForm(form) ==
    [email      |-> IF trim(form.email) = <<>> THEN "Email is required"
                    ELSE IF ~validEmail(form.email)
                         THEN "Please enter a valid email address" ELSE "",
     username   |-> IF trim(form.username) = <<>> THEN "Username is required"
                    ELSE IF Len(form.username) < MinUsername
                         THEN "Username must be at least 3 characters" ELSE "",
     password   |-> IF form.mode = "create" /\ form.password = <<>>
                    THEN "Password is required"
                    ELSE IF form.password # <<>> /\ Len(form.password) < MinPassword
                         THEN "Password must be at least 6 characters" ELSE "",
     company_id |-> IF form.currentUser.role = "super_admin" /\ form.company_id = 0
                    THEN "Company is required" ELSE "",
     general    |-> ""]

\* canSubmit of the second revision
userFormCanSubmit(form) ==
    form.username # <<>> /\ form.email # <<>> /\ form.password # <<>>

MsgAllRequired == "Name, email, and password are required."
MsgAdminCompany == "Admin user must have a company_id"
MsgSaveFailed == "Failed to save user"

\* the form as constructed for the signed-in user
userFormMounted(currentUser, mode) ==
    IF revision = 1
    THEN [currentUser |-> currentUser, mode |-> mode,
          email |-> IF mode = "edit" THEN EditedUser.email ELSE Text(<<>>),
          username |-> IF mode = "edit" THEN EditedUser.username ELSE Text(<<>>),
          password |-> Text(<<>>),
          company_id |-> IF currentUser.role = "admin" THEN currentUser.company_id
                         ELSE IF mode = "edit" THEN EditedUser.company_id ELSE 0,
          companies |-> {}, errors |-> noUserErrors, loading |-> FALSE, pc |-> "idle"]
    ELSE [currentUser |-> currentUser, mode |-> "create",
          email |-> Text(<<>>), username |-> Text(<<>>), password |-> Text(<<>>),
          company_id |-> IF currentUser.role = "admin" /\ currentUser.company_id # 0
                         THEN currentUser.company_id ELSE 1,
          companies |-> {}, errors |-> noUserErrors, loading |-> FALSE, pc |-> "idle"]

userFormOpen == openForm = "user" /\ userForm.pc = "idle"

userFormUnchanged == UNCHANGED <<formsRest, app, companyForm, taskForm, sent>>

\* the mount effect that loads the companies, from the answer on: the first
\* revision runs it for a super admin only
userFormLoadCompanies(status) ==
    /\ userFormOpen
    /\ userForm.companies = {}
    /\ revision = 1 => userForm.currentUser.role = "super_admin"
    /\ status = 200
    /\ userForm' = [userForm EXCEPT !.companies = Companies]
    /\ lastOp' = Op("userFormLoadCompanies", "ok", status)
    /\ userFormUnchanged

\* the company selector is rendered
showCompanySelect(form) ==
    /\ form.companies # {}
    /\ revision = 1 => form.currentUser.role = "super_admin"

\* handleChange(key, value): the first revision disables the inputs while
\* loading and clears the error of the field
userFormChange(key, value) ==
    /\ userFormOpen
    /\ revision = 1 => ~userForm.loading
    /\ key = "company_id" => showCompanySelect(userForm) /\ value \in {0} \cup userForm.companies
    /\ userForm' = [userForm EXCEPT
           ![key] = value,
           !.errors = IF revision = 1 /\ key \in DOMAIN @ THEN [@ EXCEPT ![key] = ""] ELSE @]
    /\ lastOp' = Op("userFormChange", key, 0)
    /\ userFormUnchanged

\* the request the user API sends: of its payload the company is kept
userRequest(form, company_id) ==
    [endpoint |-> "/users", method |-> IF form.mode = "create" THEN "POST" ELSE "PUT",
     company_id |-> company_id]

\* the submit event of the form: handleSubmit up to its await. The second
\* revision disables the submit button unless canSubmit
userFormSubmit ==
    /\ userFormOpen
    /\ ~userForm.loading
    /\ revision = 2 => userFormCanSubmit(userForm)
    /\ Len(sent) < MaxSent
    /\ IF revision = 1
       THEN LET newErrors == validateForm(userForm)
                role == userForm.currentUser.role
            IN  IF newErrors # noUserErrors
                THEN /\ userForm' = [userForm EXCEPT !.errors = newErrors]
                     /\ sent' = sent
                     /\ lastOp' = Op("userFormSubmit", "invalid", 0)
                ELSE IF role = "admin" /\ userForm.currentUser.company_id = 0
                THEN /\ userForm' = [userForm EXCEPT
                            !.errors = [noUserErrors EXCEPT !.general = MsgAdminCompany],
                            !.loading = FALSE]
                     /\ sent' = sent
                     /\ lastOp' = Op("userFormSubmit", "refused", 0)
                ELSE /\ userForm' = [userForm EXCEPT !.errors = newErrors, !.loading = TRUE]
                     /\ sent' = Append(sent, userRequest(userForm,
                                   IF role = "admin" THEN userForm.currentUser.company_id
                                   ELSE userForm.company_id))
                     /\ lastOp' = Op("userFormSubmit", "sent", 0)
       ELSE IF ~userFormCanSubmit(userForm)
            THEN /\ userForm' = [userForm EXCEPT
                        !.errors = [noUserErrors EXCEPT !.general = MsgAllRequired]]
                 /\ sent' = sent
                 /\ lastOp' = Op("userFormSubmit", "invalid", 0)
            ELSE /\ userForm' = [userForm EXCEPT !.errors = noUserErrors, !.loading = TRUE]
                 /\ sent' = Append(sent, userRequest(userForm,
                               IF userForm.company_id = 0 THEN 1 ELSE userForm.company_id))
                 /\ lastOp' = Op("userFormSubmit", "sent", 0)
    /\ UNCHANGED <<formsRest, app, companyForm, taskForm>>

UserFormAnswers == {200, 400}

\* handleSubmit from the answer on: onClose() or the general error
userFormResolve(status) ==
    /\ openForm = "user"
    /\ userForm.loading
    /\ userForm' =
           IF status = 200
           THEN [userForm EXCEPT !.loading = FALSE, !.pc = "closed"]
           ELSE [userForm EXCEPT !.loading = FALSE,
                                 !.errors = [noUserErrors EXCEPT !.general = MsgSaveFailed]]
    /\ lastOp' = Op("userFormResolve", IF status = 200 THEN "ok" ELSE "failed", status)
    /\ userFormUnchanged

-----------------------------------------------------------------------------
(* The company creation form (CompanyCreationForm.tsx) *)

CompanyNames == {Text(<<>>), Text(<<"A">>)}
CompanyUsernames == {Text(<<>>), Text(<<" ">>), Text(<<"u">>)}
CompanyPasswords ==
    {Text(<<>>), Text(<<"p", "w">>), Text(<<" ", " ", " ", " ", " ", " ">>),
     Text(<<"s", "e", "c", "r", "e", "t">>)}

CompanyFormKeys == {"company_name", "company_username", "company_password"}

CompanyValues(key) ==
    IF key = "company_name" THEN CompanyNames
    ELSE IF key = "company_username" THEN CompanyUsernames
    ELSE CompanyPasswords

noCompanyErrors == [company_name |-> "", company_username |-> "", company_password |-> ""]

\* newErrors of validateForm
companyValidateForm(form) ==
    [company_name     |-> IF trim(form.company_name) = <<>>
                          THEN "Company name is required." ELSE "",
     company_username |-> IF trim(form.company_username) = <<>>
                          THEN "Company username is required." ELSE "",
     company_password |-> IF trim(form.company_password) = <<>>
                          THEN "Company password is required."
                          ELSE IF Len(form.company_password) < MinPassword
                               THEN "Password must be at least 6 characters." ELSE ""]

MsgCompanyFailed == "Failed to create company. Please try again."

companyFormMounted ==
    [company_name |-> Text(<<>>), company_username |-> Text(<<>>),
     company_password |-> Text(<<>>), errors |-> noCompanyErrors, loading |-> FALSE,
     apiError |-> NoError]

companyFormUnchanged == UNCHANGED <<formsRest, app, userForm, taskForm, sent>>

\* canSubmit: what the submit button is enabled by
companyCanSubmit(form) ==
    /\ ~form.loading
    /\ trim(form.company_name) # <<>>
    /\ trim(form.company_username) # <<>>
    /\ trim(form.company_password) # <<>>
    /\ form.errors = noCompanyErrors

\* handleChange: the value is stored, the error of the field and the API
\* error are cleared
companyFormChange(key, value) ==
    /\ openForm = "company"
    /\ companyForm' = [companyForm EXCEPT ![key] = value,
                                          !.errors = [@ EXCEPT ![key] = ""],
                                          !.apiError = NoError]
    /\ lastOp' = Op("companyFormChange", key, 0)
    /\ companyFormUnchanged

\* the request companyAPI.createCompany sends: of its payload the name is kept
companyRequest(form) ==
    [endpoint |-> "/companies", method |-> "POST", name |-> form.company_name]

\* the submit event, with the loading flag raised before the validation and
\* left raised when it fails
companyFormSubmitStaysLoading ==
    /\ openForm = "company"
    /\ companyCanSubmit(companyForm)
    /\ Len(sent) < MaxSent
    /\ LET newErrors == companyValidateForm(companyForm)
       IN  IF newErrors # noCompanyErrors
           THEN /\ companyForm' = [companyForm EXCEPT !.apiError = NoError,
                                                      !.errors = newErrors,
                                                      !.loading = TRUE]
                /\ sent' = sent
                /\ lastOp' = Op("companyFormSubmit", "invalid", 0)
           ELSE /\ companyForm' = [companyForm EXCEPT !.apiError = NoError,
                                                      !.errors = newErrors,
                                                      !.loading = TRUE]
                /\ sent' = Append(sent, companyRequest(companyForm))
                /\ lastOp' = Op("companyFormSubmit", "sent", 0)
    /\ UNCHANGED <<formsRest, app, userForm, taskForm>>

\* the submit event of the form: handleSubmit up to its await
companyFormSubmit ==
    /\ openForm = "company"
    /\ companyCanSubmit(companyForm)
    /\ Len(sent) < MaxSent
    /\ LET newErrors == companyValidateForm(companyForm)
       IN  IF newErrors # noCompanyErrors
           THEN /\ companyForm' = [companyForm EXCEPT !.apiError = NoError,
                                                      !.errors = newErrors]
                /\ sent' = sent
                /\ lastOp' = Op("companyFormSubmit", "invalid", 0)
           ELSE /\ companyForm' = [companyForm EXCEPT !.apiError = NoError,
                                                      !.errors = newErrors,
                                                      !.loading = TRUE]
                /\ sent' = Append(sent, companyRequest(companyForm))
                /\ lastOp' = Op("companyFormSubmit", "sent", 0)
    /\ UNCHANGED <<formsRest, app, userForm, taskForm>>

CompanyFormAnswers == {200, 400}

\* handleSubmit from the answer on: onSuccess() or the API error
companyFormResolve(status) ==
    /\ openForm = "company"
    /\ companyForm.loading
    /\ companyForm' = [companyForm EXCEPT
           !.loading = FALSE,
           !.apiError = IF status = 200 THEN @ ELSE MsgCompanyFailed]
    /\ lastOp' = Op("companyFormResolve", IF status = 200 THEN "ok" ELSE "failed", status)
    /\ companyFormUnchanged

-----------------------------------------------------------------------------
(* One form mounted for a signed-in user *)

InitForms ==
    /\ \E user \in FormSessions : signedIn(user, "/dashboard")
    /\ backend = Backend(<<>>, <<>>)
    /\ app = AppState(<<>>, <<>>)
    /\ dashboardUnmounted
    /\ clock = Epoch
    /\ noCards
    /\ sent = <<>>
    /\ openForm \in {"user", "company", "task"}
    /\ revision \in {1, 2}
    /\ openForm # "user" => revision = 2
    /\ userForm \in IF openForm = "user"
                    THEN {userFormMounted(authState.user, mode) : mode \in FormModes}
                    ELSE {Null}
    /\ companyForm = IF openForm = "company" THEN companyFormMounted ELSE Null
    /\ taskForm = IF openForm = "task" THEN taskFormMounted ELSE Null

NextForms ==
    \/ fetchUsers
    \/ \E status \in UsersAnswers : fetchUsersResolve(status)
    \/ \E title \in TaskTitles : setTitle(title)
    \/ \E dueDate \in DueDates : setDueDate(dueDate)
    \/ \E groupType \in GroupTypes : handleGroupSelection(groupType)
    \/ \E u \in ListedUsers : handleUserSelection(u.id)
    \/ taskFormSubmit
    \/ \E answer \in SubmissionAnswers : taskFormResolve(answer)
    \/ taskFormClose
    \/ \E status \in UserFormAnswers : userFormLoadCompanies(status)
    \/ \E key \in UserFormKeys : \E value \in FormValues(key) : userFormChange(key, value)
    \/ userFormSubmit
    \/ \E status \in UserFormAnswers : userFormResolve(status)
    \/ \E key \in CompanyFormKeys : \E value \in CompanyValues(key) :
           companyFormChange(key, value)
    \/ companyFormSubmit
    \/ \E status \in CompanyFormAnswers : companyFormResolve(status)

SpecForms == InitForms /\ [][NextForms]_vars

-----------------------------------------------------------------------------
(* Properties of the role / permission table *)

\* C1: for every permission name P, hasPermission(P) is true exactly when the
\* session has a user and P is in the static ROLE_PERMISSIONS set of that
\* user's role; with no user it is false for every P.
HasPermissionIsTableLookup ==
    \A P \in PermissionNames :
        hasPermission(authState, P) <=>
            (authState.user # Null /\ P \in ROLE_PERMISSIONS[authState.user.role])

\* an admin session is granted an admin permission and refused a super_admin one
HasPermissionWitness ==
    /\ authState.user # Null
    /\ authState.user.role = "admin"
    /\ hasPermission(authState, "manage_company_users")
    /\ ~hasPermission(authState, "manage_companies")

\* C2: for each route configured in ROUTE_ACCESS, canAccessRoute is true
\* exactly when the session has a user whose role is in the route's allowed
\* set; with no user it is false for every route, configured or not.
CanAccessRouteIsRuleLookup ==
    /\ \A route \in DOMAIN ROUTE_ACCESS :
           canAccessRoute(authState, route) <=>
               (authState.user # Null /\ authState.user.role \in ROUTE_ACCESS[route])
    /\ authState.user = Null =>
           \A route \in RouteNames : ~canAccessRoute(authState, route)

\* an admin session may see /users and may not see /companies
CanAccessRouteWitness ==
    /\ authState.user # Null
    /\ authState.user.role = "admin"
    /\ canAccessRoute(authState, "/users")
    /\ ~canAccessRoute(authState, "/companies")

\* C3: for a route that is not in ROUTE_ACCESS, canAccessRoute is true for
\* every authenticated session, whatever its role.
UnmappedRouteFailsOpen ==
    \A route \in RouteNames \ DOMAIN ROUTE_ACCESS :
        (authState.isAuthenticated \/ authState.user # Null) =>
            canAccessRoute(authState, route)

\* an authenticated session of role 'user' is let into an unmapped route
UnmappedRouteWitness ==
    /\ authState.isAuthenticated
    /\ authState.user # Null
    /\ authState.user.role = "user"
    /\ canAccessRoute(authState, "/some/unmapped/route")

-----------------------------------------------------------------------------
(* Properties of the session store *)

\* C4: when logout has run, both durable values are gone and the session is
\* unauthenticated (no user, isAuthenticated false), whatever held before.
LogoutClearsEverything ==
    lastOp.name = "logout" =>
        /\ storage.access_token = NoToken
        /\ storage.auth = Null
        /\ authState.user = Null
        /\ ~authState.isAuthenticated

\* logout has run on an authenticated session
LogoutWitness ==
    /\ lastOp.name = "logout"
    /\ lastOp.wasAuthenticated
    /\ navigating

\* C5: when a company login has succeeded, the session's role and the
\* persisted profile's role are both "admin", whatever role the backend's
\* profile stated.
CompanyLoginForcesAdmin ==
    (lastOp.name = "companyLoginResolve" /\ lastOp.outcome = "ok") =>
        /\ authState.isAuthenticated
        /\ authState.user # Null
        /\ authState.user.role = "admin"
        /\ storage.auth # Null
        /\ storage.auth.role = "admin"

\* the company login was answered with the profile of user 3, whose backend
\* role is "user"
CompanyLoginWitness ==
    /\ lastOp.name = "companyLoginResolve"
    /\ lastOp.outcome = "ok"
    /\ authState.user # Null
    /\ authState.user.id = "3"
    /\ BackendStaff.role = "user"
    /\ authState.user.role = "admin"
    /\ storage.access_token = "t2"

-----------------------------------------------------------------------------
(* Properties of the authentication flow *)

\* C6: within one submission the primary login is requested once and first;
\* the company login is requested only after the primary login has been
\* answered with a failure, with the same identity and secret, and once; no
\* other request is made.
LoginProtocolState ==
    /\ Len(calls) <= 2
    /\ formPc = "primary" => Len(calls) = 1
    /\ formPc = "company" =>
           Len(calls) = 2 /\ regularResult # Null /\ ~regularResult.success
    /\ Len(calls) >= 1 => calls[1].endpoint = "/login"
    /\ Len(calls) = 2 =>
           calls[2] = Call("/company-login", calls[1].username, calls[1].password)

LoginProtocolStep ==
    calls' # calls =>
        \/ calls' = <<>>
        \/ formPc = "idle" /\ Len(calls') = 1
        \/ /\ formPc = "primary"
           /\ Len(calls') = Len(calls) + 1
           /\ lastOp'.name = "primaryLoginResolve"
           /\ lastOp'.outcome = "failed"

LoginProtocol == []LoginProtocolState /\ [][LoginProtocolStep]_vars

\* a submission that made both requests has ended
LoginProtocolWitness ==
    /\ lastOp.name = "companyLoginResolve"
    /\ formPc = "idle"
    /\ Len(calls) = 2
    /\ calls[2].endpoint = "/company-login"
    /\ calls[2].username = "acme"

\* the priority the claim C7 states: the backend's detail, then the
\* exception's message, then a default string
claimedMessages(error) ==
    IF error.detail.kind = "string" /\ error.detail.str # "" THEN {error.detail.str}
    ELSE IF error.detail.kind = "array" THEN {join(error.detail.items)}
    ELSE IF error.message # "" THEN {error.message}
    ELSE {MsgUnexpected, MsgLoginFailed}

\* C7 as stated: when both logins fail, the form shows the message that the
\* priority detail / exception message / default gives for one of the two
\* errors.
BothFailedMessageAsClaimed ==
    [][\A resp \in LoginResponses("t2") :
           (companyLoginResolve(resp) /\ ~companyLoginAccepted(resp)) =>
               formError' \in claimedMessages(companyLoginCaught(resp))
                                  \cup claimedMessages(regularResult.caught)]_vars

Source(available, value) == [available |-> available, value |-> value]

\* the sources of a message, first to last
messageSources(error) ==
    <<Source(error.code \in {"NETWORK_ERROR", "ECONNABORTED"}, MsgNetwork),
      Source(error.detail.kind = "string" /\ error.detail.str # "", error.detail.str),
      Source(error.detail.kind = "array", join(error.detail.items)),
      Source(error.dataMessage # "", error.dataMessage),
      Source(error.status = 500, Msg500),
      Source(error.status = 404, Msg404),
      Source(error.status = 403, Msg403),
      Source(error.status = 401, Msg401),
      Source(error.message # "", error.message),
      Source(TRUE, MsgUnexpected)>>

firstAvailable(sources) ==
    LET i == CHOOSE i \in 1..Len(sources) :
                 sources[i].available /\ \A j \in 1..(i - 1) : ~sources[j].available
    IN  sources[i].value

\* C7, amended: when both logins fail the flow ends (not loading) with the
\* message of the company login's error, or if that is empty of the primary
\* login's error, or if that is empty too the form's default; an error's
\* message is the first available of: network message for a network error
\* code, the backend's detail (a string, or the joined messages of an array),
\* the backend's message field, the message that goes with status 500, 404,
\* 403 or 401, the exception's message, a default string.
BothFailedMessagePriority ==
    [][\A resp \in LoginResponses("t2") :
           (companyLoginResolve(resp) /\ ~companyLoginAccepted(resp)) =>
               LET own == firstAvailable(messageSources(companyLoginCaught(resp)))
                   first == firstAvailable(messageSources(regularResult.caught))
               IN  /\ formError' = IF own # "" THEN own
                                   ELSE IF first # "" THEN first
                                   ELSE MsgLoginFailed
                   /\ formPc' = "idle"
                   /\ ~formLoading'
                   /\ ~authState'.isLoading]_vars

\* both logins have failed and the message shown is the one that goes with
\* status 401, not the exception's message
BothFailedWitness ==
    /\ lastOp.name = "companyLoginResolve"
    /\ lastOp.outcome = "failed"
    /\ lastOp.status = 401
    /\ formError = Msg401
    /\ ~formLoading

-----------------------------------------------------------------------------
(* Properties of the startup *)

StartupRevalidationState ==
    lastOp.name = "initializeAuthResolve" =>
        /\ ~authState.isLoading
        /\ initPc = "done"
        /\ lastOp.outcome = "ok" =>
               /\ authState.isAuthenticated
               /\ authState.user # Null
        /\ lastOp.outcome = "failed" =>
               /\ storage.access_token = NoToken
               /\ storage.auth = Null
               /\ authState.user = Null
               /\ ~authState.isAuthenticated

StartupRevalidationStep ==
    /\ (lastOp'.name = "initializeAuth" /\ storage.access_token # NoToken) =>
           initPc' = "awaiting"
    /\ \A resp \in CurrentUserResponses("t0") :
           initializeAuthResolve(resp) =>
               IF resp.ok /\ resp.data.id # 0
               THEN /\ lastOp'.outcome = "ok"
                    /\ authState'.user.id = ToString(resp.data.id)
                    /\ authState'.user.role = resp.data.role
                    /\ authState'.user.email = resp.data.email
                    /\ authState'.user.company_id = resp.data.company_id
               ELSE lastOp'.outcome = "failed"

\* C8: at startup with a persisted token the store asks the backend for the
\* current user; when the answer is a usable profile the session becomes
\* authenticated with that profile, otherwise both persisted values are
\* removed and the session is unauthenticated; either way loading ends false.
StartupRevalidation == []StartupRevalidationState /\ [][StartupRevalidationStep]_vars

\* the revalidation was answered 401
StartupRevalidationWitness ==
    /\ lastOp.name = "initializeAuthResolve"
    /\ lastOp.outcome = "failed"
    /\ lastOp.status = 401
    /\ storage = cleared
    /\ ~authState.isLoading

\* C9 as stated: at startup with a persisted profile and no token the session
\* is populated from the profile, without a backend call.
StartupTrustsProfileAsClaimed ==
    (/\ lastOp.name = "initializeAuth"
     /\ storage.access_token = NoToken
     /\ storage.auth # Null) =>
        /\ initPc = "done"
        /\ authState.user # Null
        /\ authState.isAuthenticated

\* C9, amended: at startup with no persisted token the store makes no backend
\* call and the session is unauthenticated with loading false, whether or not
\* a profile is persisted; the persisted profile is neither used nor removed.
StartupWithoutTokenIsUnauthenticated ==
    [][(lastOp'.name = "initializeAuth" /\ storage.access_token = NoToken) =>
           /\ initPc' = "done"
           /\ authState' = Unauthenticated
           /\ storage' = storage]_vars

\* the startup found a profile and no token
StartupWithoutTokenWitness ==
    /\ lastOp.name = "initializeAuth"
    /\ storage.access_token = NoToken
    /\ storage.auth # Null
    /\ initPc = "done"
    /\ authState.user = Null

-----------------------------------------------------------------------------
(* Properties of the 401 handling *)

\* C10 as stated: once any request has been answered 401, both durable values
\* are gone, the session does not count as authenticated (it is
\* unauthenticated, or the page is being replaced), and the browser is at or
\* on its way to the login entry point.
Any401InvalidatesSession ==
    lastOp.status = 401 =>
        /\ storage.access_token = NoToken
        /\ storage.auth = Null
        /\ ~authState.isAuthenticated \/ navigating
        /\ navigating \/ pathIncludesLogin(location)

-----------------------------------------------------------------------------
(* Properties of the ownership of the session and of the durable values *)

\* the steps in which a method of the session store runs (PageLoad is the
\* construction of the store)
StoreSteps ==
    {"PageLoad", "initializeAuth", "initializeAuthResolve", "handleSubmit",
     "primaryLoginResolve", "companyLoginResolve", "logout", "updateUser",
     "refreshUser", "refreshUserResolve"}

\* C11 as stated: the in-memory session and the two durable values change
\* only in a step of a session store method and only as that method writes
\* them; login() and companyLogin() write nothing durable when they fail, so
\* a failed login leaves both durable values as they were.
SessionAndStorageOwnedByStore ==
    [][/\ (storage' # storage \/ authState' # authState) => lastOp'.name \in StoreSteps
       /\ (/\ lastOp'.name \in {"primaryLoginResolve", "companyLoginResolve"}
           /\ lastOp'.outcome = "failed") => storage' = storage]_vars

\* the profile the claim C12 expects after updateUser(patch)
claimedProfile(prev, patch) == mergeProfile(prev, patch)

\* C12 as stated: updateUser merges the given profile into the session's:
\* fields the patch gives no value for keep their previous values, the flags
\* are unchanged and the persisted profile is the merged one.
UpdateUserMergesAsClaimed ==
    [][\A user \in Users :
           updateUser(user) =>
               /\ authState'.user = claimedProfile(authState.user, user)
               /\ authState'.isAuthenticated = authState.isAuthenticated
               /\ authState'.isLoading = authState.isLoading
               /\ storage'.auth = JSONstringify(authState'.user)]_vars

UpdateUserReplacesStep ==
    /\ \A user \in Users :
           updateUser(user) =>
               /\ authState'.user = user
               /\ authState'.isAuthenticated = authState.isAuthenticated
               /\ authState'.isLoading = authState.isLoading
               /\ storage'.access_token = storage.access_token
    /\ \A resp \in CurrentUserResponses("t") :
           (refreshUserResolve(resp) /\ lastOp'.outcome = "ok") =>
               /\ authState'.user = transformBackendUser(resp.data)
               /\ authState'.isAuthenticated = authState.isAuthenticated
               /\ authState'.isLoading = authState.isLoading
               /\ storage'.access_token = storage.access_token

UpdateUserPersisted ==
    (lastOp.name = "updateUser" \/ (lastOp.name = "refreshUserResolve" /\ lastOp.outcome = "ok")) =>
        /\ authState.user # Null
        /\ storage.auth = JSONstringify(authState.user)

\* C12, amended: updateUser replaces the session's profile by the profile it
\* is given, whole (a field the new profile has no value for has none
\* afterwards), and persists it: the authenticated and loading flags and the
\* token are unchanged, and the persisted profile is the serialization of the
\* new in-memory profile.  A successful refreshUser does the same with the
\* backend's current profile.
UpdateUserReplacesProfile == []UpdateUserPersisted /\ [][UpdateUserReplacesStep]_vars

\* updateUser has run on an authenticated session with a profile that has no
\* company, and no company is left in the session or in the persisted profile
UpdateUserWitness ==
    /\ lastOp.name = "updateUser"
    /\ lastOp.wasAuthenticated
    /\ authState.isAuthenticated
    /\ authState.user.company_id = 0
    /\ "company_id" \notin DOMAIN storage.auth

SuccessfulMutations ==
    {"primaryLoginResolve", "companyLoginResolve", "initializeAuthResolve",
     "refreshUserResolve"}

PersistedAfterSuccess ==
    (\/ lastOp.name \in SuccessfulMutations /\ lastOp.outcome = "ok"
     \/ lastOp.name = "updateUser") =>
        /\ authState.user # Null
        /\ storage.auth # Null
        /\ storage.auth = JSONstringify(authState.user)

TokenPersistedStep ==
    /\ \A resp \in LoginResponses("t1") :
           (primaryLoginResolve(resp) /\ lastOp'.outcome = "ok") =>
               storage'.access_token = resp.data.access_token
    /\ \A resp \in LoginResponses("t2") :
           (companyLoginResolve(resp) /\ lastOp'.outcome = "ok") =>
               storage'.access_token = resp.data.access_token

\* C13: when a primary login, a company login, a startup revalidation, a
\* refreshUser or an updateUser has succeeded, the durable 'auth' value is the
\* serialization of the session's user; after a successful login the durable
\* token is the token the backend returned.
SuccessfulMutationPersists == []PersistedAfterSuccess /\ [][TokenPersistedStep]_vars

\* a primary login has succeeded with the backend's token and user 3
SuccessfulMutationWitness ==
    /\ lastOp.name = "primaryLoginResolve"
    /\ lastOp.outcome = "ok"
    /\ storage.access_token = "t1"
    /\ authState.user.id = "3"
    /\ storage.auth.id = "3"

-----------------------------------------------------------------------------
(* Properties of the dashboard *)

\* the task collection the dashboard is computed from: the tasks of the
\* AppContext (first revision) or the tasks it fetched (second revision)
countedTasks ==
    IF revision = 1 THEN app.tasks
    ELSE IF authState.user.role = "company"
    THEN tasksAPIgetAllTasks(backend, Request("/tasks", authState.user.company_id))
    ELSE locals.freshTasks

\* the task collection there is: the tasks of the AppContext (first
\* revision) or the tasks the backend holds (second revision)
allTasks == IF revision = 1 THEN app.tasks ELSE backend.tasks

\* loadDashboardData has put its counts into `stats`
statsComputed ==
    IF revision = 1 THEN dashPc # "unmounted"
    ELSE dashPc = "done" /\ dashError \notin {MsgDashboardV2, MsgCompanyData}

\* every load of the dashboard has ended, none with an error
loadedWithoutError ==
    /\ dashPc = "done"
    /\ companiesPc # "awaiting"
    /\ dashError = NoError

howMany(seq, pred(_)) == Cardinality({i \in 1..Len(seq) : pred(seq[i])})

\* C15 as stated: for a session of role "user", the dashboard's totalTasks is
\* the number of tasks, of the collection it is computed from, whose assignee
\* is the session's user.
UserTotalTasksAreOwnTasks ==
    (statsComputed /\ authState.user.role = "user") =>
        stats.totalTasks =
            howMany(allTasks, LAMBDA t : ToString(t.assignee) = authState.user.id)

\* what the claim C16 counts as overdue
dueInThePast(t) == t.due # 0 /\ t.due < Now
claimedOverdue(t) == dueInThePast(t) /\ t.status # "completed"

\* taskAPI.getTaskStats: the filter of `overdue`
isOverdueTaskStats(t) ==
    IF t.due = 0 \/ t.status = "completed" THEN FALSE ELSE t.due < Now

\* C16: overdueTasks is the number of counted tasks that have a due date
\* strictly in the past and a status other than "completed"; a task without a
\* due date and a completed task are never counted.  The overdue filter of
\* taskAPI.getTaskStats selects the same tasks.
OverdueIsPastDueAndNotCompleted ==
    /\ statsComputed =>
           /\ stats.overdueTasks = howMany(countedTasks, claimedOverdue)
           /\ stats.overdueTasks <= howMany(countedTasks, LAMBDA t : t.due # 0)
           /\ stats.overdueTasks + howMany(countedTasks,
                                           LAMBDA t : dueInThePast(t) /\ t.status = "completed")
                  = howMany(countedTasks, dueInThePast)
    /\ Len(SelectSeq(allTasks, isOverdueTaskStats)) = howMany(allTasks, claimedOverdue)

\* the scenario: of a pending and a completed task, both past their due date,
\* one is counted
OverdueWitness ==
    /\ revision = 2
    /\ dashPc = "done"
    /\ lastOp.name = "notificationsResolve"
    /\ countedTasks = <<TaskPendingOverdue, TaskCompletedOverdue>>
    /\ stats.overdueTasks = 1
    /\ stats.totalTasks = 2

\* C17 as stated: for a super_admin session the dashboard's totalCompanies,
\* totalUsers and totalTasks are the numbers of all companies, all users and
\* all tasks.
SuperAdminCountsAreGlobal ==
    (loadedWithoutError /\ authState.user.role = "super_admin") =>
        /\ stats.totalCompanies = Len(backend.companies)
        /\ stats.totalUsers = Len(backend.users)
        /\ stats.totalTasks = Len(allTasks)

ofCompany(seq, company_id) == howMany(seq, LAMBDA x : x.company_id = company_id)

\* C18 as stated: for an admin or company session every request for users or
\* tasks is restricted to the session's company_id, and the counts are those
\* of the users and tasks of that company.
AdminCountsAreOfOwnCompany ==
    authState.user.role \in {"admin", "company"} =>
        LET own == authState.user.company_id
        IN  /\ \A i \in 1..Len(requests) :
                   requests[i].endpoint \in {"/users", "/tasks"} =>
                       requests[i].company_id = own
            /\ loadedWithoutError =>
                   /\ stats.totalUsers = ofCompany(backend.users, own)
                   /\ stats.totalTasks = ofCompany(allTasks, own)
                   /\ stats.pendingTasks =
                          howMany(allTasks, LAMBDA t : t.company_id = own /\ isPending(t))
                   /\ stats.completedTasks =
                          howMany(allTasks, LAMBDA t : t.company_id = own /\ isCompleted(t))
                   /\ stats.overdueTasks =
                          howMany(allTasks, LAMBDA t : t.company_id = own /\ claimedOverdue(t))

\* the numbers of the recency list: the N most recent tasks, the M most
\* recent notifications, the cap
RecentTasksN == 3
RecentNotificationsM == IF revision = 1 THEN 2 ELSE 3
DisplayCap == IF revision = 1 THEN 5 ELSE 6

\* x is among the n most recently created members of seq
amongMostRecent(x, seq, n) == howMany(seq, LAMBDA y : y.created > x.created) < n

\* C19 as stated: the recency list is sorted newest first, is no longer than
\* the cap, and holds only tasks among the N most recently created of the
\* counted tasks and notifications among the M most recent.
RecencyListIsMostRecent ==
    (statsComputed /\ authState.user.role \in Roles) =>
        /\ \A i, j \in 1..Len(recentActivities) :
               i < j => recentActivities[i].timestamp >= recentActivities[j].timestamp
        /\ Len(recentActivities) <= DisplayCap
        /\ \A i \in 1..Len(recentActivities) :
               LET a == recentActivities[i]
               IN  IF a.id[1] = "task"
                   THEN \E t \in {countedTasks[k] : k \in 1..Len(countedTasks)} :
                            /\ t.id = a.id[2]
                            /\ amongMostRecent(t, countedTasks, RecentTasksN)
                   ELSE LET notifs == IF revision = 1 THEN app.notifications
                                      ELSE backend.notifications
                        IN  \E n \in {notifs[k] : k \in 1..Len(notifs)} :
                                /\ n.id = a.id[2]
                                /\ amongMostRecent(n, notifs, RecentNotificationsM)

DashboardResolveSteps ==
    {"loadUsersResolve", "loadCompaniesResolve", "companyListResolve",
     "adminCompaniesResolve", "adminTasksResolve", "adminUsersResolve",
     "myTasksResolve", "companyResolve", "notificationsResolve"}

\* C20 as stated: once a request of a dashboard load has failed the error is
\* set and, the load over, loading is cleared and the error panel with its
\* Refresh Page button is shown; the step that handles the failure issues no
\* request.
FetchFailureShowsError ==
    /\ [](lastOp.name \in DashboardResolveSteps /\ lastOp.outcome = "failed" =>
              /\ dashError # NoError
              /\ dashPc = "done" => errorPanelShown)
    /\ [][lastOp'.name \in DashboardResolveSteps /\ lastOp'.outcome = "failed" =>
              requests' = requests]_vars

-----------------------------------------------------------------------------
(* Properties of the login flow's failure paths *)

\* a submission of the login form is under way
submissionInFlight == formPc # "idle"

\* the form and the store both accept a new submission
reactionable == ~formLoading /\ ~authState.isLoading

\* C22: after any login submission, whatever the primary and the company
\* login answer (success, failure, or an answer that makes the try block
\* throw), the form's loading flag and the session's isLoading flag are both
\* false again in the end, provided every backend call is answered or fails;
\* a reload of the page abandons the submission with the whole form.
LoginEndsReactionable ==
    submissionInFlight ~> (reactionable \/ lastOp.name = "PageLoad")

\* both logins of one submission failed and the form can be submitted again
LoginEndsReactionableWitness ==
    /\ lastOp.name = "companyLoginResolve"
    /\ lastOp.outcome = "failed"
    /\ Len(calls) = 2
    /\ formError # NoError
    /\ reactionable

-----------------------------------------------------------------------------
(* Properties of the primary login for the demo administrator *)

\* C23 as stated: a submission for demoadmin@company.com, with any password,
\* succeeds at once, without a network call, and yields a session of role
\* "admin".
DemoAdminLoginIsImmediate ==
    [][\A password \in Secrets :
           handleSubmit(DemoAdmin, password) =>
               /\ calls' = <<>>
               /\ authState'.isAuthenticated
               /\ authState'.user # Null
               /\ authState'.user.role = "admin"]_vars

-----------------------------------------------------------------------------
(* Properties of the session under interleaved operations *)

\* C26 as stated: in every reachable state of the session store,
\* isAuthenticated is true if and only if the session user is non-null,
\* whatever the interleaving of the startup revalidation, the logins, logout,
\* updateUser and a refreshUser whose answer arrives after another operation.
AuthenticatedIffUserPresent ==
    authState.isAuthenticated <=> authState.user # Null

-----------------------------------------------------------------------------
(* Properties of a failed login *)

\* C27 as stated: a login attempt that fails on either path (backend error,
\* 401, or an answer lacking the token or the user) leaves the session user,
\* the authenticated flag and both durable values as they were; only the
\* loading flag has gone true and, the submission over, is false again.
FailedLoginChangesNothing ==
    [][(/\ lastOp'.name \in {"primaryLoginResolve", "companyLoginResolve"}
        /\ lastOp'.outcome = "failed") =>
           /\ authState'.user = authState.user
           /\ authState'.isAuthenticated = authState.isAuthenticated
           /\ storage' = storage
           /\ formPc' = "idle" => ~authState'.isLoading]_vars

-----------------------------------------------------------------------------
(* Properties of the application store *)

distinctIds(seq) == \A i, j \in 1..Len(seq) : i # j => seq[i].id # seq[j].id

\* the positions at which two collections of the same length differ
changedAt(before, after) == {i \in 1..Len(before) : after[i] # before[i]}

\* C30 as stated: after any sequence of addTask, updateTask and deleteTask
\* (and of addUser and addNotification) all tasks (users, notifications) of
\* the collection have pairwise distinct ids, also when two additions happen
\* at the same clock reading; so updateTask changes at most one task and
\* deleteTask removes at most one, every other task staying as it was.
StoreIdsAreDistinct ==
    /\ [](/\ distinctIds(app.tasks)
          /\ distinctIds(app.users)
          /\ distinctIds(app.notifications))
    /\ [][/\ lastOp'.name = "updateTask" =>
                 Cardinality(changedAt(app.tasks, app'.tasks)) <= 1
          /\ lastOp'.name = "deleteTask" =>
                 Len(app'.tasks) >= Len(app.tasks) - 1]_vars

-----------------------------------------------------------------------------
(* Properties of the task card *)

\* the steps of status a task may take through its card
StatusSteps == {<<"pending", "in_progress">>, <<"in_progress", "completed">>}

\* C28 as stated: through the task card the locally held status of a task
\* changes only by pending -> in_progress and in_progress -> completed, only
\* when the current user is the task's assignee, and only in the step that
\* handles a successful answer to the status request; a failed or rejected
\* request leaves the local tasks unchanged, and a completed task never
\* changes status again.
CardStatusFollowsLifecycle ==
    [][/\ \A i \in 1..Len(app.tasks) :
              app'.tasks[i].status # app.tasks[i].status =>
                  /\ <<app.tasks[i].status, app'.tasks[i].status>> \in StatusSteps
                  /\ app.tasks[i].status # "completed"
                  /\ authState.user.id = app.tasks[i].assignedTo
                  /\ lastOp'.name = "handleStatusChangeResolve"
                  /\ lastOp'.outcome = "ok"
       /\ (lastOp'.name = "handleStatusChangeResolve" /\ lastOp'.outcome = "failed") =>
              app'.tasks = app.tasks]_vars

-----------------------------------------------------------------------------
(* Properties of the task list *)

\* the tasks of the store that match the search, status and priority filters
matching(tasks, f) ==
    {tasks[i] : i \in {i \in 1..Len(tasks) :
        /\ matchesSearch(tasks[i], f) /\ matchesStatus(tasks[i], f)
        /\ matchesPriority(tasks[i], f)}}

displayedTasks == {taskList.displayed[i] : i \in 1..Len(taskList.displayed)}

\* C25 as stated: for an admin session with the assignment filter at 'all'
\* the displayed tasks are exactly the tasks matching the search, status and
\* priority filters, with no filtering by assignee or creator; for a
\* non-admin session only tasks assigned to the current user are displayed.
AdminSeesAllTasks ==
    listShown =>
        IF authState.user.role = "admin"
        THEN taskList.assignmentFilter = "all" =>
                 displayedTasks = matching(app.tasks, taskList)
        ELSE \A t \in displayedTasks : t.assignedTo = authState.user.id

-----------------------------------------------------------------------------
(* Properties of the forms *)

\* the group flags of the task form agree with the selection
flagsAgree ==
    openForm = "task" =>
        /\ taskForm.groupSelections.allAdmins =>
               taskForm.userGroups.admins \subseteq taskForm.selectedUsers
        /\ taskForm.groupSelections.allUsers =>
               taskForm.userGroups.users \subseteq taskForm.selectedUsers
        /\ taskForm.groupSelections.everyone =>
               taskForm.userGroups.all \subseteq taskForm.selectedUsers

\* a step that checks the allAdmins or the allUsers box leaves everyone unchecked
checkedAfterEveryone ==
    (/\ lastOp'.name = "handleGroupSelection"
     /\ lastOp'.outcome \in {"allAdmins", "allUsers"}
     /\ taskForm'.groupSelections[lastOp'.outcome]
     /\ ~taskForm.groupSelections[lastOp'.outcome])
        => ~taskForm'.groupSelections.everyone

\* C29 as stated: after any sequence of handleGroupSelection and
\* handleUserSelection calls allAdmins is true only if every listed admin is
\* selected, allUsers only if every listed regular user is selected, everyone
\* only if every listed user is selected, and checking allAdmins or allUsers
\* leaves everyone unchecked.
GroupFlagsAgreeWithSelection == []flagsAgree /\ [][checkedAfterEveryone]_vars

\* the user form is used by an admin
adminForm == openForm = "user" /\ userForm.currentUser.role = "admin"

\* every create-user request carries the company of the admin
ownCompanyOnly ==
    adminForm =>
        \A i \in 1..Len(sent) :
            sent[i].method = "POST" =>
                /\ userForm.currentUser.company_id # 0
                /\ sent[i].company_id = userForm.currentUser.company_id

\* a submission by an admin without a company sends nothing and shows an error
refusedWithoutCompany ==
    (/\ adminForm
     /\ userForm.currentUser.company_id = 0
     /\ lastOp'.name = "userFormSubmit")
        => sent' = sent /\ userForm'.errors # noUserErrors

\* C24 as stated: whenever the current user has role 'admin', every
\* create-user request the user form sends carries company_id equal to the
\* admin's own company_id, whatever the form fields hold, and if the admin has
\* no company_id no request is sent and an error is shown instead.
AdminCreatesInOwnCompany == []ownCompanyOnly /\ [][refusedWithoutCompany]_vars

\* the fields named by the messages set in a record of errors
named(errors, keys) == {k \in keys : errors[k] # ""}

\* the fields of the mounted form that fail its validation
offending ==
    IF openForm = "user"
    THEN IF revision = 1 THEN named(validateForm(userForm), UserFormKeys)
         ELSE {k \in {"username", "email", "password"} : userForm[k] = <<>>}
    ELSE IF openForm = "company"
    THEN named(companyValidateForm(companyForm), CompanyFormKeys)
    ELSE {k \in {"title", "selectedUsers", "dueDate"} :
             \/ k = "title" /\ trim(taskForm.title) = <<>>
             \/ k = "selectedUsers" /\ taskForm.selectedUsers = {}
             \/ k = "dueDate" /\ taskForm.dueDate = ""}

\* the field an error toast of the task form is about
toastField(message) ==
    IF message = MsgTitleRequired THEN {"title"}
    ELSE IF message = MsgSelectUser THEN {"selectedUsers"}
    ELSE IF message = MsgDueDateRequired THEN {"dueDate"}
    ELSE {}

\* the fields the mounted form shows an error for
errorFields ==
    IF openForm = "user"
    THEN IF revision = 1 THEN named(userForm.errors, UserFormKeys)
         ELSE IF userForm.errors.general = MsgAllRequired
              THEN {"username", "email", "password"} ELSE {}
    ELSE IF openForm = "company" THEN named(companyForm.errors, CompanyFormKeys)
    ELSE IF taskForm.showToast /\ taskForm.toastType = "error"
         THEN toastField(taskForm.toastMessage) ELSE {}

\* the loading flag of the mounted form
formIsLoading ==
    IF openForm = "user" THEN userForm.loading
    ELSE IF openForm = "company" THEN companyForm.loading
    ELSE taskForm.isLoading

SubmitSteps == {"userFormSubmit", "companyFormSubmit", "taskFormSubmit"}

====
